---- MODULE Spec2Model ----
(***************************************************************************)
(* A model of the wagering decision engine of the Apex repository:         *)
(*   - tier classification        (apex_horizontal_bankroll_v1_8.py)       *)
(*   - min-rank ranking           (pandas.py, Series.rank)                 *)
(*   - Monte Carlo simulators     (apex_montecarlo_v1.py,                  *)
(*                                 apex/mc_simulator.py)                   *)
(*   - vertical ticket builders   (verticals_mc_builder_v1_3.py)           *)
(*   - horizontal trimming        (apex_horizontal_bankroll_v1_8.py)       *)
(*                                                                         *)
(* Number conventions.  TLA+ has integers only, so                          *)
(*   - a win probability p is held as the integer 100*p (percent);         *)
(*   - a rating (CPR) is held as an integer number of rating points;       *)
(*   - money (unit, cap, cost) is held in cents, so Python's               *)
(*     round(x, 2) on dollars is rounding to an integer number of cents.   *)
(* Python lists are 0-based, TLA+ sequences 1-based: index i of the source *)
(* is index i+1 here.                                                      *)
(***************************************************************************)
EXTENDS Integers, Sequences, FiniteSets, TLC

VARIABLES
    \* ---- tier classification of one race (assign_tiers) ----
    sub,        \* the race's rows: sequence of [program, CPR_STD, MC_WIN]
    cpr_rank,   \* the _cpr_rank column assign_tiers computes (<<>> before)
    Tier,       \* the Tier column assign_tiers returns (<<>> before)
    tcalls,     \* how many times assign_tiers has run on sub
    \* ---- Monte Carlo simulation of one race (run_mc_simulation) ----
    mcVariant,  \* "direct" (apex_montecarlo_v1) or "noise" (apex/mc_simulator)
    group,      \* the race's rows: sequence of [pp, cpr]
    runs,       \* the trial count (sims / runs)
    trial,      \* number of trials completed
    wins,       \* win tally per row index
    places,     \* place tally per row index (noise variant)
    shows,      \* show tally per row index (noise variant)
    out_rows,   \* the probabilities reported: [pp, win, of] = win / of
    mcPc,       \* "idle", "run", "done" or "error" (an exception escaped)
    last_scores, \* scores of the last noise trial (<<>> before)
    last_order, \* order of the last noise trial: row indices, best first
    \* ---- vertical tickets of one race (verticals main loop body) ----
    vsub,       \* the race's rows: sequence of [program, CPR_Total, MC_WinProb]
    ex_rows,    \* tickets of exacta_for_race
    tri_rows,   \* tickets of trifecta_for_race
    sup_rows,   \* tickets of super_for_race
    vpc,        \* "idle", "exacta", "trifecta", "super", "done"
    \* ---- one horizontal sequence (build_sequences.emit, trim_ticket_to_cap) ----
    seq_name,   \* the bet type
    legs_in,    \* legs_lists as emit built them
    bankroll,   \* base * mult, in cents
    cap,        \* min(alloc_cap, hard), in cents (0 before emit computes it)
    legs_lists, \* the working copy inside trim_ticket_to_cap
    unit,       \* unit / scaled_unit, in cents
    row,        \* the emitted row, or NoRow
    hpc,        \* "idle", "emit", "loop", "ret", "row", "none"
    span,       \* (s, e) of the sequence emit works on
    chaos_map,  \* race -> chaos_leg(race), filled by build_sequences
    single_map, \* race -> detect_single(race), filled by build_sequences
    \* ---- one card (build_sequences) ----
    card,       \* df by race: race number -> rows [program, CPR_STD, MC_WIN, adv]
    base,       \* the base stake, in cents
    races,      \* the sorted race numbers of the card
    tiered,     \* race number -> Tier column (groupby("race").apply(assign_tiers))
    mpos,       \* position of "for r in races" filling chaos_map, single_map
    emit_i,     \* position of "for name, span in spans.items()"
    seq_rows,   \* rows of build_sequences: the rows collected so far
    cpc,        \* "idle", "start", "maps", "emit", "done", "error"
    \* ---- one run of an entry point on an input table ----
    entry,      \* "none", "simulator", "horizontals" or "verticals"
    columns,    \* df.columns: the column names, each a sequence of characters
    nraces,     \* number of races (groups of rows) in the table
    sruns,      \* runs of mc_simulator.run_mc_simulation
    srace,      \* races the run has finished
    strial,     \* trials of the current race that have run
    tallied,    \* Monte Carlo trials tallied so far
    produced,   \* rows or tickets produced so far
    spc,        \* "idle", "load", "build", "sim", "done", or the exception raised
    rating_col, \* the column the entry point reads the ratings from
    \* ---- one seeded run of run_mc_simulation over a card ----
    mcard,      \* the groups of df.groupby("race"), in the order they are simulated
    seed,       \* the seed the random source was given before the run
    rstate,     \* the state of the process-wide random source
    mruns,      \* sims
    mrace,      \* position of "for race, sub in df.groupby(...)"
    mtrial,     \* trials of the current race that have run
    mwins,      \* wins of the current race, per row index
    mresults,   \* the win counts reported for the races finished, per race
    qpc         \* "idle", "run", "done"

tierVars == <<sub, cpr_rank, Tier, tcalls>>
mcVars   == <<mcVariant, group, runs, trial, wins, places, shows, out_rows, mcPc,
              last_scores, last_order>>
vertVars == <<vsub, ex_rows, tri_rows, sup_rows, vpc>>
trimVars == <<seq_name, legs_in, bankroll, cap, legs_lists, unit, row, hpc,
              span, chaos_map, single_map>>
cardVars == <<card, base, races, tiered, mpos, emit_i, seq_rows, cpc>>
schemaVars == <<entry, columns, nraces, sruns, srace, strial, tallied, produced, spc,
                rating_col>>
seedVars == <<mcard, seed, rstate, mruns, mrace, mtrial, mwins, mresults, qpc>>
vars     == <<tierVars, mcVars, vertVars, trimVars, cardVars, schemaVars, seedVars>>

----------------------------------------------------------------------------
(* Generic helpers                                                          *)

Min2(a, b) == IF a <= b THEN a ELSE b
Max2(a, b) == IF a >= b THEN a ELSE b

SetMax(S) == CHOOSE x \in S : \A y \in S : y <= x
SetMin(S) == CHOOSE x \in S : \A y \in S : x <= y

RECURSIVE SeqSum(_)
SeqSum(s) == IF s = <<>> THEN 0 ELSE Head(s) + SeqSum(Tail(s))

\* a list given by its index function, held as the tuple of its values
List(q) == SubSeq(q, 1, Len(q))

Column(df, c) == List([i \in 1..Len(df) |-> df[i][c]])

Reverse(s) == List([i \in 1..Len(s) |-> s[Len(s) + 1 - i]])

\* s[:n] of Python
Take(s, n) == SubSeq(s, 1, Min2(n, Len(s)))

\* pd.to_numeric(..., errors="coerce") turns a cell that is not a number into
\* NaN; NaN is held as a number no rating, probability or program number takes
NaN == -1000000

IsNaN(x) == x = NaN

\* x - y, x <= y, x >= y, x < y on floats: NaN propagates through arithmetic
\* and every comparison with NaN is False
NSub(x, y) == IF IsNaN(x) \/ IsNaN(y) THEN NaN ELSE x - y
NLe(x, y)  == ~IsNaN(x) /\ ~IsNaN(y) /\ x <= y
NGe(x, y)  == ~IsNaN(x) /\ ~IsNaN(y) /\ x >= y
NLt(x, y)  == ~IsNaN(x) /\ ~IsNaN(y) /\ x < y

\* the positions of a column that hold a number, in row order (dropna)
RECURSIVE NotNaIdx(_, _)
NotNaIdx(col, i) ==
    IF i > Len(col) THEN <<>>
    ELSE (IF IsNaN(col[i]) THEN <<>> ELSE <<i>>) \o NotNaIdx(col, i + 1)

\* Series.max() / Series.min(): NaN is skipped, NaN when nothing is left
NaMax(col) ==
    LET v == {col[i] : i \in 1..Len(col)} \ {NaN}
    IN  IF v = {} THEN NaN ELSE SetMax(v)

NaMin(col) ==
    LET v == {col[i] : i \in 1..Len(col)} \ {NaN}
    IN  IF v = {} THEN NaN ELSE SetMin(v)

----------------------------------------------------------------------------
(* pandas.py: Series.rank                                                   *)

\* tuple comparison (v, i) < (w, j) of Python
PairLess(a, b) == a[1] < b[1] \/ (a[1] = b[1] /\ a[2] < b[2])

\* sorted([(v, i) for i, v in enumerate(self)], reverse=not ascending)
SortedVals(s, ascending) ==
    LET pairs == {<<s[i], i>> : i \in 1..Len(s)}
        asc   == List([k \in 1..Len(s) |->
                    CHOOSE p \in pairs :
                        Cardinality({q \in pairs : PairLess(q, p)}) = k - 1])
    IN  IF ascending THEN asc ELSE Reverse(asc)

\* the inner while: the first position after i whose value differs
GroupEnd(sorted_vals, i) ==
    CHOOSE j \in (i + 1)..(Len(sorted_vals) + 1) :
        /\ \A m \in i..(j - 1) : sorted_vals[m][1] = sorted_vals[i][1]
        /\ (j = Len(sorted_vals) + 1 \/ sorted_vals[j][1] # sorted_vals[i][1])

\* the outer while of Series.rank; i and j are 1-based here, so the source's
\* current_rank = j + 1 (j 0-based) reads current_rank = j
RECURSIVE RankLoop(_, _, _, _, _)
RankLoop(sorted_vals, method, i, current_rank, ranks) ==
    IF i > Len(sorted_vals) THEN ranks
    ELSE LET j        == GroupEnd(sorted_vals, i)
             \* (current_rank + j - 1) / 2 with j 0-based; doubled to stay integral
             rank_val == IF method = "min" THEN current_rank
                         ELSE current_rank + j - 2
             ranks2   == List([k \in DOMAIN ranks |->
                            IF \E m \in i..(j - 1) : sorted_vals[m][2] = k
                            THEN rank_val ELSE ranks[k]])
         IN  RankLoop(sorted_vals, method, j, j, ranks2)

\* a plausible slip: the next group's rank is the previous rank + 1 (dense rank)
RECURSIVE RankLoopDense(_, _, _, _, _)
RankLoopDense(sorted_vals, method, i, current_rank, ranks) ==
    IF i > Len(sorted_vals) THEN ranks
    ELSE LET j        == GroupEnd(sorted_vals, i)
             ranks2   == [k \in DOMAIN ranks |->
                            IF \E m \in i..(j - 1) : sorted_vals[m][2] = k
                            THEN current_rank ELSE ranks[k]]
         IN  RankLoopDense(sorted_vals, method, j, current_rank + 1, ranks2)

RankDense(s, method, ascending) ==
    RankLoopDense(SortedVals(s, ascending), method, 1, 1, [k \in 1..Len(s) |-> 0])

Rank(s, method, ascending) ==
    RankLoop(SortedVals(s, ascending), method, 1, 1, [k \in 1..Len(s) |-> 0])

\* Series.rank with the default na_option="keep": the numbers are ranked among
\* themselves and a NaN cell has rank NaN
RankNa(s, method, ascending) ==
    LET idx == NotNaIdx(s, 1)
        r   == Rank(List([k \in 1..Len(idx) |-> s[idx[k]]]), method, ascending)
    IN  [i \in 1..Len(s) |->
            IF IsNaN(s[i]) THEN NaN
            ELSE r[CHOOSE k \in 1..Len(idx) : idx[k] = i]]

----------------------------------------------------------------------------
(* apex_horizontal_bankroll_v1_8.py: tiering                                *)

A_MC_MIN        == 28    \* 0.28
B_MC_MIN        == 16    \* 0.16
B_CPR_DELTA_MAX == 8     \* 8.0

\* a plausible slip: the B rule forgets the probability alternative
assign_tiers_no_mc(s) ==
    LET rank == Rank(Column(s, "CPR_STD"), "min", FALSE)
        isA  == [i \in 1..Len(s) |-> rank[i] <= 2 \/ s[i].MC_WIN >= A_MC_MIN]
        lead == SetMax({s[i].CPR_STD : i \in 1..Len(s)})
        isB  == [i \in 1..Len(s) |->
                    ~isA[i] /\ (lead - s[i].CPR_STD <= B_CPR_DELTA_MAX)]
    IN  [rank |-> rank,
         Tier |-> [i \in 1..Len(s) |->
                     IF isA[i] THEN "A" ELSE IF isB[i] THEN "B" ELSE "C"]]

\* a plausible slip: strict comparisons against the thresholds
assign_tiers_strict(s) ==
    LET rank == Rank(Column(s, "CPR_STD"), "min", FALSE)
        isA  == [i \in 1..Len(s) |-> rank[i] <= 2 \/ s[i].MC_WIN > A_MC_MIN]
        lead == SetMax({s[i].CPR_STD : i \in 1..Len(s)})
        isB  == [i \in 1..Len(s) |->
                    ~isA[i] /\ (\/ lead - s[i].CPR_STD < B_CPR_DELTA_MAX
                                \/ s[i].MC_WIN > B_MC_MIN)]
    IN  [rank |-> rank,
         Tier |-> [i \in 1..Len(s) |->
                     IF isA[i] THEN "A" ELSE IF isB[i] THEN "B" ELSE "C"]]

\* assign_tiers: the _cpr_rank column it computes and the Tier column it
\* returns.  A starter without a rating has rank NaN and a NaN distance to
\* the leader, so only its probability can lift it out of Tier C.
assign_tiers(s) ==
    LET rank == RankNa(Column(s, "CPR_STD"), "min", FALSE)
        isA  == List([i \in 1..Len(s) |->
                    NLe(rank[i], 2) \/ NGe(s[i].MC_WIN, A_MC_MIN)])
        lead == NaMax(Column(s, "CPR_STD"))
        isB  == [i \in 1..Len(s) |->
                    ~isA[i] /\ (\/ NLe(NSub(lead, s[i].CPR_STD), B_CPR_DELTA_MAX)
                                \/ NGe(s[i].MC_WIN, B_MC_MIN))]
    IN  [rank |-> rank,
         Tier |-> [i \in 1..Len(s) |->
                     IF isA[i] THEN "A" ELSE IF isB[i] THEN "B" ELSE "C"]]

----------------------------------------------------------------------------
(* Bounds and inputs of the tiering specification                           *)

MaxStarters == 4      \* starters per race in the enumerated races
MaxCalls    == 2      \* how often a race is classified

\* ratings around the leader-delta boundary (90 - 82 = 8, 90 - 81 = 9)
RatingChoices == {81, 82, 90}
\* probabilities around the A and B thresholds
McChoices     == {15, 16, 28}

\* the reference race of the design's end-to-end scenario
ScenarioRace ==
    << [program |-> 1, CPR_STD |-> 90, MC_WIN |-> 30],
       [program |-> 2, CPR_STD |-> 85, MC_WIN |-> 20],
       [program |-> 3, CPR_STD |-> 80, MC_WIN |-> 20],
       [program |-> 4, CPR_STD |-> 75, MC_WIN |-> 15],
       [program |-> 5, CPR_STD |-> 70, MC_WIN |-> 15] >>

\* races of n starters, program numbers 1..n in row order (load_df sorts them)
RacesOf(n) ==
    {[i \in 1..n |-> [program |-> i, CPR_STD |-> f[i][1], MC_WIN |-> f[i][2]]] :
        f \in [1..n -> RatingChoices \X McChoices]}

TierIdle ==
    /\ sub = <<>> /\ cpr_rank = <<>> /\ Tier = <<>> /\ tcalls = 0

InitTier ==
    /\ \/ \E n \in 1..MaxStarters : sub \in RacesOf(n)
       \/ sub = ScenarioRace
    /\ cpr_rank = <<>> /\ Tier = <<>> /\ tcalls = 0

\* build_sequences line 235: tiered = groupby("race").apply(assign_tiers), one race
AssignTiers ==
    /\ sub # <<>>
    /\ tcalls < MaxCalls
    /\ cpr_rank' = assign_tiers(sub).rank
    /\ Tier' = assign_tiers(sub).Tier
    /\ tcalls' = tcalls + 1
    /\ UNCHANGED <<sub, mcVars, vertVars, trimVars, cardVars, schemaVars, seedVars>>

----------------------------------------------------------------------------
(* apex_montecarlo_v1.py and numpy.py: the direct-proportional simulator    *)

\* A weight (b - min_base) + 1e-9 is held as <<b - min_base, 1>>: whole rating
\* points and a count of epsilons.  Sums add componentwise.  An epsilon never
\* outweighs a whole rating point, so comparisons of such sums are
\* lexicographic; this is exact for integer ratings.
Weights(base_series) ==
    LET min_base == SetMin({base_series[i] : i \in 1..Len(base_series)})
    IN  [i \in 1..Len(base_series) |-> <<base_series[i] - min_base, 1>>]

RECURSIVE PairSum(_, _)
PairSum(w, n) ==
    IF n = 0 THEN <<0, 0>>
    ELSE LET rest == PairSum(w, n - 1)
         IN  <<rest[1] + w[n][1], rest[2] + w[n][2]>>

\* r <= cumulative[idx], for r = k / RGrid and cumulative[idx] = cum / total:
\* k * total <= RGrid * cum, compared points first, epsilons second
DrawAtMost(k, grid, cum, total) ==
    LET pts == k * total[1] - grid * cum[1]
        eps == k * total[2] - grid * cum[2]
    IN  pts < 0 \/ (pts = 0 /\ eps <= 0)

\* RandomModule.choice(len(df), p=probs) with random() = k / grid:
\* the first index whose cumulative boundary reaches r, else the last one
Choice(n, p, k, grid) ==
    LET total == PairSum(p, n)
        hits  == {idx \in 1..n : DrawAtMost(k, grid, PairSum(p, idx), total)}
    IN  IF hits # {} THEN SetMin(hits) ELSE n

\* simulate_race_once(df, cpr_col): the row index of the winner
simulate_race_once_direct(df, k, grid) ==
    Choice(Len(df), Weights(Column(df, "cpr")), k, grid)

----------------------------------------------------------------------------
(* apex/mc_simulator.py: the noise-perturbed ranking simulator              *)

\* base = max(cpr - min + 1e-9, 0.001) times the noise draw.  A score is held
\* as <<thousandths, epsilons>>: the lowest-rated starter scores 0.001 * noise,
\* every other (cpr - min + 1e-9) * noise.
Scores(df, noise) ==
    LET cprs == Column(df, "cpr")
        lo   == SetMin({cprs[i] : i \in 1..Len(df)})
    IN  [i \in 1..Len(df) |->
            IF cprs[i] = lo THEN <<noise[i], 0>>
            ELSE <<(cprs[i] - lo) * 1000 * noise[i], noise[i]>>]

ScoreLess(a, b) == a[1] < b[1] \/ (a[1] = b[1] /\ a[2] < b[2])

\* np.argsort(scores)[::-1]: the permutations in descending score order.  The
\* order numpy gives equal scores depends on the sort kernel of the build, so
\* every order of equal scores is an outcome.
Orders(scores) ==
    LET n == Len(scores)
    IN  {o \in [1..n -> 1..n] :
            /\ \A i, j \in 1..n : i # j => o[i] # o[j]
            /\ \A i \in 1..(n - 1) : ~ScoreLess(scores[o[i]], scores[o[i + 1]])}

----------------------------------------------------------------------------
(* Bounds and inputs of the Monte Carlo specification                       *)

MaxMCStarters == 3     \* starters per simulated race
MaxRuns       == 3     \* trial count (the program's default is 5000)
RGrid         == 4     \* random() is drawn from {0, 1/RGrid, .., (RGrid-1)/RGrid}
MaxNoise      == 2     \* a Gamma draw is one of 1..MaxNoise

MCRatings == {80, 90}

MCRacesOf(n) ==
    {[i \in 1..n |-> [pp |-> i, cpr |-> f[i]]] : f \in [1..n -> MCRatings]}

MCIdle ==
    /\ mcVariant = "none" /\ group = <<>> /\ runs = 0 /\ trial = 0
    /\ wins = <<>> /\ places = <<>> /\ shows = <<>> /\ out_rows = <<>>
    /\ mcPc = "idle" /\ last_scores = <<>> /\ last_order = <<>>

\* run_mc_simulation entered for one race: counters initialised (lines 68-76)
InitMC ==
    /\ mcVariant \in {"direct", "noise"}
    /\ \E n \in 1..MaxMCStarters : group \in MCRacesOf(n)
    /\ runs \in 0..MaxRuns
    /\ trial = 0
    /\ wins = [i \in 1..Len(group) |-> 0]
    /\ places = [i \in 1..Len(group) |-> 0]
    /\ shows = [i \in 1..Len(group) |-> 0]
    /\ out_rows = <<>>
    /\ mcPc = "run" /\ last_scores = <<>> /\ last_order = <<>>

\* apex_montecarlo_v1.run_mc_simulation, one pass of "for _ in range(sims)"
TrialDirect ==
    /\ mcPc = "run" /\ mcVariant = "direct" /\ trial < runs
    /\ \E k \in 0..(RGrid - 1) :
          LET winner == simulate_race_once_direct(group, k, RGrid)
          IN  wins' = [wins EXCEPT ![winner] = @ + 1]
    /\ trial' = trial + 1
    /\ UNCHANGED <<mcVariant, group, runs, places, shows, out_rows, mcPc>>
    /\ UNCHANGED <<last_scores, last_order>>
    /\ UNCHANGED <<tierVars, vertVars, trimVars, cardVars, schemaVars, seedVars>>

\* apex_montecarlo_v1.run_mc_simulation, value_counts(normalize=True) and the rows
FinishDirect ==
    /\ mcPc = "run" /\ mcVariant = "direct" /\ trial = runs
    /\ out_rows' = [i \in 1..Len(group) |->
                      [pp |-> group[i].pp, win |-> wins[i], of |-> Max2(trial, 1)]]
    /\ mcPc' = "done"
    /\ UNCHANGED <<mcVariant, group, runs, trial, wins, places, shows>>
    /\ UNCHANGED <<last_scores, last_order>>
    /\ UNCHANGED <<tierVars, vertVars, trimVars, cardVars, schemaVars, seedVars>>

\* mc_simulator.run_mc_simulation, one pass of "for _ in range(runs)":
\* simulate_race_once reads order[0], order[1], order[2]; with fewer than three
\* starters the read raises IndexError before any tally is touched
TrialNoise ==
    /\ mcPc = "run" /\ mcVariant = "noise" /\ trial < runs
    /\ \E noise \in [1..Len(group) -> 1..MaxNoise] :
       \E o \in Orders(Scores(group, noise)) :
          /\ last_scores' = Scores(group, noise)
          /\ last_order' = o
          /\ IF Len(group) < 3
             THEN /\ mcPc' = "error"
                  /\ UNCHANGED <<trial, wins, places, shows>>
             ELSE /\ wins' = [wins EXCEPT ![o[1]] = @ + 1]
                  /\ places' = [places EXCEPT ![o[2]] = @ + 1]
                  /\ shows' = [shows EXCEPT ![o[3]] = @ + 1]
                  /\ trial' = trial + 1
                  /\ mcPc' = "run"
    /\ UNCHANGED <<mcVariant, group, runs, out_rows>>
    /\ UNCHANGED <<tierVars, vertVars, trimVars, cardVars, schemaVars, seedVars>>

\* mc_simulator.run_mc_simulation, the rows: wins[pp] / runs raises
\* ZeroDivisionError when runs = 0
FinishNoise ==
    /\ mcPc = "run" /\ mcVariant = "noise" /\ trial = runs
    /\ IF runs = 0
       THEN mcPc' = "error" /\ UNCHANGED out_rows
       ELSE /\ out_rows' = [i \in 1..Len(group) |->
                              [pp |-> group[i].pp, win |-> wins[i], of |-> runs]]
            /\ mcPc' = "done"
    /\ UNCHANGED <<mcVariant, group, runs, trial, wins, places, shows>>
    /\ UNCHANGED <<last_scores, last_order>>
    /\ UNCHANGED <<tierVars, vertVars, trimVars, cardVars, schemaVars, seedVars>>

NextMC == TrialDirect \/ FinishDirect \/ TrialNoise \/ FinishNoise

----------------------------------------------------------------------------
(* verticals_mc_builder_v1_3.py: exacta, trifecta and superfecta tickets    *)

EXACTA_MAX_LINES   == 24
TRIFECTA_MAX_LINES == 24
SUPER_MAX_LINES    == 60
EXACTA_POOL        == 5
TRIFECTA_POOL      == 6
SUPER_POOL         == 7
ANCHOR_POOL        == 2

\* the composite key -wc*CPR_Total - wp*(100*MC_WinProb), times 100 to stay
\* integral: wc, wp are 70/30 (exacta), 65/35 (trifecta), 60/40 (superfecta)
CompositeKey(s, wc, wp) ==
    [i \in 1..Len(s) |-> -(wc * s[i].CPR_Total) - wp * s[i].MC_WinProb]

\* DataFrame.nsmallest(n, column)["program"].tolist(): a stable sort by the
\* column, the first n rows
NSmallest(s, n, col) ==
    LET sorted_rows == SortedVals(col, TRUE)
    IN  [k \in 1..Min2(n, Len(s)) |-> s[sorted_rows[k][2]].program]

\* a plausible slip: ranking the composite score ascending picks the weakest
PoolWorst(s, wc, wp, n) ==
    NSmallest(s, n, Rank(CompositeKey(s, wc, wp), "min", FALSE))

\* s["rank"] = (...).rank(method="min"); s.nsmallest(n, "rank")["program"]
Pool(s, wc, wp, n) ==
    NSmallest(s, n, Rank(CompositeKey(s, wc, wp), "min", TRUE))

\* "for x in xs: rows += F(x)" in list order
RECURSIVE ForEach(_, _)
ForEach(F(_), xs) ==
    IF xs = <<>> THEN <<>> ELSE F(Head(xs)) \o ForEach(F, Tail(xs))

\* a plausible slip: the last max_lines rows are kept
TruncateLast(rows, max_lines) ==
    SubSeq(rows, Max2(1, Len(rows) - max_lines + 1), Len(rows))

\* return rows[:max_lines]
Truncate(rows, max_lines) == Take(rows, max_lines)

ExactaLoops(A, B) ==
    ForEach(LAMBDA a :
        ForEach(LAMBDA b : IF a # b THEN << <<a, b>> >> ELSE <<>>, B), A)

\* a plausible slip: the third position is only compared with the second
TrifectaLoopsRepeat(A, B) ==
    ForEach(LAMBDA a :
        ForEach(LAMBDA b :
            IF a = b THEN <<>>
            ELSE ForEach(LAMBDA c :
                    IF c = b THEN <<>> ELSE << <<a, b, c>> >>, B), B), A)

TrifectaLoops(A, B) ==
    ForEach(LAMBDA a :
        ForEach(LAMBDA b :
            IF a = b THEN <<>>
            ELSE ForEach(LAMBDA c :
                    IF c \in {a, b} THEN <<>> ELSE << <<a, b, c>> >>, B), B), A)

SuperLoops(A, B) ==
    ForEach(LAMBDA a :
        ForEach(LAMBDA b :
            IF b = a THEN <<>>
            ELSE ForEach(LAMBDA c :
                    IF c \in {a, b} THEN <<>>
                    ELSE ForEach(LAMBDA d :
                            IF d \in {a, b, c} THEN <<>>
                            ELSE << <<a, b, c, d>> >>, B), B), B), A)

TicketRows(type, tickets, cost) ==
    [k \in 1..Len(tickets) |-> [type |-> type, ticket |-> tickets[k], cost |-> cost]]

exacta_for_race(s) ==
    LET A == Pool(s, 70, 30, ANCHOR_POOL)
        B == Pool(s, 70, 30, EXACTA_POOL)
    IN  Truncate(TicketRows("EXACTA", ExactaLoops(A, B), 200), EXACTA_MAX_LINES)

trifecta_for_race(s) ==
    LET A == Pool(s, 65, 35, ANCHOR_POOL)
        B == Pool(s, 65, 35, TRIFECTA_POOL)
    IN  Truncate(TicketRows("TRIFECTA", TrifectaLoops(A, B), 200), TRIFECTA_MAX_LINES)

super_for_race(s) ==
    LET A == Pool(s, 60, 40, ANCHOR_POOL)
        B == Pool(s, 60, 40, SUPER_POOL)
    IN  Truncate(TicketRows("SUPER", SuperLoops(A, B), 20), SUPER_MAX_LINES)

----------------------------------------------------------------------------
(* Bounds and inputs of the vertical-ticket specification                   *)

MaxVertStarters == 8    \* starters per race

\* <<CPR_Total, 100 * MC_WinProb>>: the first outranks the second for an
\* exacta (70/30), the second outranks the first for trifecta and superfecta
VertChoices == {<<90, 10>>, <<80, 30>>}

VertRacesOf(n) ==
    {[i \in 1..n |-> [program |-> i, CPR_Total |-> f[i][1], MC_WinProb |-> f[i][2]]] :
        f \in [1..n -> VertChoices]}

VertIdle ==
    /\ vsub = <<>> /\ ex_rows = <<>> /\ tri_rows = <<>> /\ sup_rows = <<>>
    /\ vpc = "idle"

\* main: one race of "for r, sub in df.groupby('race')"
InitVert ==
    /\ \E n \in 1..MaxVertStarters : vsub \in VertRacesOf(n)
    /\ ex_rows = <<>> /\ tri_rows = <<>> /\ sup_rows = <<>>
    /\ vpc = "exacta"

ExactaForRace ==
    /\ vpc = "exacta"
    /\ ex_rows' = exacta_for_race(vsub)
    /\ vpc' = "trifecta"
    /\ UNCHANGED <<vsub, tri_rows, sup_rows, tierVars, mcVars, trimVars, cardVars, schemaVars, seedVars>>

TrifectaForRace ==
    /\ vpc = "trifecta"
    /\ tri_rows' = trifecta_for_race(vsub)
    /\ vpc' = "super"
    /\ UNCHANGED <<vsub, ex_rows, sup_rows, tierVars, mcVars, trimVars, cardVars, schemaVars, seedVars>>

SuperForRace ==
    /\ vpc = "super"
    /\ sup_rows' = super_for_race(vsub)
    /\ vpc' = "done"
    /\ UNCHANGED <<vsub, ex_rows, tri_rows, tierVars, mcVars, trimVars, cardVars, schemaVars, seedVars>>

NextVert == ExactaForRace \/ TrifectaForRace \/ SuperForRace

----------------------------------------------------------------------------
(* apex_horizontal_bankroll_v1_8.py: build_sequences.emit, trim_ticket_to_cap *)

SeqNames == {"Daily Double", "Pick 3", "Pick 4", "Pick 5", "Pick 6"}

\* the span lengths of build_sequences (lines 286-292)
SeqLength(name) ==
    CASE name = "Daily Double" -> 2
      [] name = "Pick 3" -> 3
      [] name = "Pick 4" -> 4
      [] name = "Pick 5" -> 5
      [] name = "Pick 6" -> 6

\* MIN_UNITS, in cents
MIN_UNITS(name) == IF name = "Daily Double" THEN 200 ELSE 20

\* ALLOC, in percent of the bankroll
ALLOC(name) ==
    CASE name = "Daily Double" -> 25
      [] name = "Pick 3" -> 20
      [] name = "Pick 4" -> 25
      [] name = "Pick 5" -> 20
      [] name = "Pick 6" -> 10

\* HARD_CAP, in cents
HARD_CAP(name) ==
    CASE name = "Daily Double" -> 10000
      [] name = "Pick 3" -> 8000
      [] name = "Pick 4" -> 15000
      [] name = "Pick 5" -> 20000
      [] name = "Pick 6" -> 30000

\* mins of build_sequences: the minimum per-leg coverage
mins(name) == IF name = "Daily Double" THEN 2 ELSE 1

\* round(n / d) to the nearest integer, ties to the even one (d > 0); with n in
\* cents this is Python's round(dollars / d, 2).  \div rounds toward minus
\* infinity, so the remainder is in 0..d-1 for negative n too.
RoundDiv(n, d) ==
    LET q == n \div d
        r == n % d
    IN  IF 2 * r < d THEN q
        ELSE IF 2 * r > d THEN q + 1
        ELSE IF q % 2 = 0 THEN q ELSE q + 1

RECURSIVE combos_count(_)
combos_count(ll) ==
    IF ll = <<>> THEN 1 ELSE Max2(1, Len(Head(ll))) * combos_count(Tail(ll))

\* total_cost of trim_ticket_to_cap
total_cost(ll, u) == combos_count(ll) * u

\* a plausible slip: the rescaled unit is floored at one cent
scaled_unit_cent(name, ll, u, c) == Max2(1, RoundDiv(c, Max2(1, combos_count(ll))))

\* a plausible slip: the minimum unit is not enforced on the rescaled unit
scaled_unit_no_floor(name, ll, u, c) == RoundDiv(c, Max2(1, combos_count(ll)))

\* scaled_unit = max(min_unit, round(cap / max(1, combos), 2)); every modelled
\* name is a key of MIN_UNITS, so MIN_UNITS.get(seq_name, unit) is MIN_UNITS
scaled_unit(name, ll, u, c) ==
    Max2(MIN_UNITS(name), RoundDiv(c, Max2(1, combos_count(ll))))

\* a plausible slip: a leg at the floor still counts as shrinkable
ShrinkIdxsAtFloor(ll, min_per_leg) == {i \in 1..Len(ll) : Len(ll[i]) >= min_per_leg}

\* idxs = [i for i, sz in enumerate(sizes) if sz > min_per_leg]
ShrinkIdxs(ll, min_per_leg) == {i \in 1..Len(ll) : Len(ll[i]) > min_per_leg}

\* a plausible slip: of equally long legs the last one is taken
LongestLast(ll, idxs) ==
    SetMax({i \in idxs : \A j \in idxs : Len(ll[j]) <= Len(ll[i])})

\* max(idxs, key=lambda i: sizes[i]): the first index of maximal size
Longest(ll, idxs) ==
    SetMin({i \in idxs : \A j \in idxs : Len(ll[j]) <= Len(ll[i])})

\* a plausible slip: the first candidate of the leg is dropped
PopFirst(ll, i) == [ll EXCEPT ![i] = Tail(@)]

\* a plausible slip: the pop is left out of the loop body
PopNone(ll, i) == ll

\* legs_lists[longest].pop()
PopLast(ll, i) == [ll EXCEPT ![i] = SubSeq(@, 1, Len(@) - 1)]

\* a plausible slip: the loop keeps shrinking without testing the cost again
ShrinkStepNoTest(ll, u, c, min_per_leg) ==
    LET idxs == ShrinkIdxs(ll, min_per_leg)
    IN  IF idxs = {} THEN [legs |-> ll, again |-> FALSE]
        ELSE LET popped == PopLast(ll, Longest(ll, idxs))
             IN  [legs  |-> popped,
                  again |-> ~(\A i \in 1..Len(popped) : Len(popped[i]) <= min_per_leg)]

\* one pass of "while combos_count(legs_lists) * scaled_unit > cap":
\* the legs afterwards and whether the loop goes round again
ShrinkStep(ll, u, c, min_per_leg) ==
    IF ~(total_cost(ll, u) > c) THEN [legs |-> ll, again |-> FALSE]
    ELSE LET idxs == ShrinkIdxs(ll, min_per_leg)
         IN  IF idxs = {} THEN [legs |-> ll, again |-> FALSE]
             ELSE LET popped == PopLast(ll, Longest(ll, idxs))
                  IN  [legs  |-> popped,
                       again |-> ~(\A i \in 1..Len(popped) :
                                      Len(popped[i]) <= min_per_leg)]

\* a plausible slip: the cap is the share of the bankroll alone
EmitCapNoHard(name, b) == (b * ALLOC(name)) \div 100

\* cap = min(bankroll * ALLOC, HARD_CAP), in cents.  The bankrolls drawn keep
\* bankroll * ALLOC / 100 a whole number of cents.
EmitCap(name, b) == Min2((b * ALLOC(name)) \div 100, HARD_CAP(name))

----------------------------------------------------------------------------
(* apex_horizontal_bankroll_v1_8.py: chaos, single, legs, span, multiplier   *)

MAX_PER_LEG_NON_CHAOS == 4
MAX_PER_LEG_CHAOS     == 6
MC_TOP_CHAOS_MAX      == 22    \* 0.22
CPR_SPREAD3_MAX       == 3     \* 3.0
ADVERSITY_MIN         == 2
SINGLE_MC_MIN         == 34    \* 0.34
SINGLE_CPR_GAP        == 3     \* 3.0
STRONG_LEG_MIN        == 34    \* the literal 0.34 of build_sequences line 230

\* detect_single returns None; program numbers are positive
None == 0

\* count_adversity_flags: the number of adversity columns with a positive cell
\* in the race; a row's adv is the set of adversity columns positive in it
count_adversity_flags(s) == Cardinality(UNION {s[i].adv : i \in 1..Len(s)})

\* sub["CPR_STD"].nlargest(3).values: NaN dropped, largest first, at most 3
Top3(s) ==
    LET cpr == Column(s, "CPR_STD")
        idx == NotNaIdx(cpr, 1)
        srt == SortedVals(List([k \in 1..Len(idx) |-> cpr[idx[k]]]), FALSE)
    IN  List([k \in 1..Min2(3, Len(idx)) |-> srt[k][1]])

\* chaos_leg raises IndexError at top3[0] when no starter has a rating
chaos_leg_raises(s) == Top3(s) = <<>>

\* a plausible slip: the probability comparison is the wrong way round
chaos_leg_reversed(s) ==
    LET mc_top      == NaMax(Column(s, "MC_WIN"))
        top3        == Top3(s)
        cpr_spread3 == IF Len(top3) = 3 THEN top3[1] - top3[3]
                       ELSE top3[1] - NaMin(Column(s, "CPR_STD"))
        adv         == count_adversity_flags(s)
    IN  /\ NLt(MC_TOP_CHAOS_MAX, mc_top)
        /\ cpr_spread3 < CPR_SPREAD3_MAX
        /\ adv >= ADVERSITY_MIN

\* chaos_leg (when it does not raise)
chaos_leg(s) ==
    LET mc_top      == NaMax(Column(s, "MC_WIN"))
        top3        == Top3(s)
        cpr_spread3 == IF Len(top3) = 3 THEN top3[1] - top3[3]
                       ELSE top3[1] - NaMin(Column(s, "CPR_STD"))
        adv         == count_adversity_flags(s)
    IN  /\ NLt(mc_top, MC_TOP_CHAOS_MAX)
        /\ cpr_spread3 < CPR_SPREAD3_MAX
        /\ adv >= ADVERSITY_MIN

\* sub.sort_values("CPR_STD", ascending=False): row indices, highest rating
\* first, rows without a rating last
SortByCprDesc(s) ==
    LET cpr == Column(s, "CPR_STD")
        idx == NotNaIdx(cpr, 1)
        srt == SortedVals(List([k \in 1..Len(idx) |-> cpr[idx[k]]]), FALSE)
        nas == NotNaIdx(List([i \in 1..Len(s) |-> IF IsNaN(cpr[i]) THEN 0 ELSE NaN]), 1)
    IN  List([k \in 1..Len(idx) |-> idx[srt[k][2]]]) \o nas

\* the test of detect_single line 148 on the top row of the sorted race
SingleTest(s) ==
    LET o       == SortByCprDesc(s)
        cpr_gap == IF Len(s) > 1
                   THEN NSub(s[o[1]].CPR_STD, s[o[2]].CPR_STD) ELSE 999
    IN  NGe(s[o[1]].MC_WIN, SINGLE_MC_MIN) /\ NGe(cpr_gap, SINGLE_CPR_GAP)

\* detect_single raises ValueError at int(NaN) when the top row passes the
\* test and has no program number
detect_single_raises(s) ==
    s # <<>> /\ SingleTest(s) /\ IsNaN(s[SortByCprDesc(s)[1]].program)

\* detect_single (when it does not raise)
detect_single(s) ==
    IF s = <<>> THEN None
    ELSE IF SingleTest(s) THEN s[SortByCprDesc(s)[1]].program
    ELSE None

\* cap_leg
\* a plausible slip: every leg is capped at the chaos maximum
cap_leg_chaos_max(legs, is_chaos) == Take(legs, MAX_PER_LEG_CHAOS)

\* cap_leg(legs, is_chaos)
cap_leg(legs, is_chaos) ==
    Take(legs, IF is_chaos THEN MAX_PER_LEG_CHAOS ELSE MAX_PER_LEG_NON_CHAOS)

\* _score of row i exceeds _score of row j, for
\*   _score = 0.7*MC_WIN + 0.3*(CPR_STD - lo)/(hi - lo + 1e-9).
\* Times 1000*(hi - lo + 1e-9) the difference is
\*   (7*(mi - mj)*(hi - lo) + 300*(ci - cj)) + 7*(mi - mj)*1e-9,
\* whole part first, epsilon part second (mi, mj in percent).
ScoreAbove(s, lo, hi, i, j) ==
    LET M    == s[i].MC_WIN - s[j].MC_WIN
        main == 7 * M * (hi - lo) + 300 * (s[i].CPR_STD - s[j].CPR_STD)
    IN  main > 0 \/ (main = 0 /\ M > 0)

\* _score of row i is NaN
ScoreNaN(s, i) == IsNaN(s[i].MC_WIN) \/ IsNaN(s[i].CPR_STD)

TierOrd(t) == CASE t = "A" -> 0 [] t = "B" -> 1 [] t = "C" -> 2

\* a plausible slip: the rows are sorted by the score alone
LegBeforeScoreOnly(s, tier, lo, hi, i, j) ==
    \/ ~ScoreNaN(s, i) /\ ScoreNaN(s, j)
    \/ /\ ~ScoreNaN(s, i) /\ ~ScoreNaN(s, j)
       /\ ScoreAbove(s, lo, hi, i, j)
    \/ /\ \/ ScoreNaN(s, i) /\ ScoreNaN(s, j)
          \/ /\ ~ScoreNaN(s, i) /\ ~ScoreNaN(s, j)
             /\ ~ScoreAbove(s, lo, hi, i, j)
             /\ ~ScoreAbove(s, lo, hi, j, i)
       /\ i < j

\* keep.sort_values(["_tier_ord", "_score"], ascending=[True, False]): row i
\* precedes row j.  The sort is stable and NaN scores go last.
LegBefore(s, tier, lo, hi, i, j) ==
    \/ TierOrd(tier[i]) < TierOrd(tier[j])
    \/ /\ tier[i] = tier[j]
       /\ \/ ~ScoreNaN(s, i) /\ ScoreNaN(s, j)
          \/ /\ ~ScoreNaN(s, i) /\ ~ScoreNaN(s, j)
             /\ ScoreAbove(s, lo, hi, i, j)
          \/ /\ \/ ScoreNaN(s, i) /\ ScoreNaN(s, j)
                \/ /\ ~ScoreNaN(s, i) /\ ~ScoreNaN(s, j)
                   /\ ~ScoreAbove(s, lo, hi, i, j)
                   /\ ~ScoreAbove(s, lo, hi, j, i)
             /\ i < j

\* a plausible slip: the detected single is not used for the leg
legs_from_tiers_no_single(s, tier, is_chaos, single_prog) ==
    LET allowed == IF is_chaos THEN {"A", "B", "C"} ELSE {"A", "B"}
        keep    == {i \in 1..Len(s) : tier[i] \in allowed}
        cprs    == {s[i].CPR_STD : i \in keep} \ {NaN}
        lo      == IF cprs = {} THEN 0 ELSE SetMin(cprs)
        hi      == IF cprs = {} THEN 0 ELSE SetMax(cprs)
        sorted  == List([k \in 1..Cardinality(keep) |->
                       CHOOSE i \in keep :
                           Cardinality({j \in keep :
                               LegBefore(s, tier, lo, hi, j, i)}) = k - 1])
        progs   == List([k \in 1..Len(sorted) |-> s[sorted[k]].program])
        idx     == NotNaIdx(progs, 1)
    IN  cap_leg(List([k \in 1..Len(idx) |-> progs[idx[k]]]), is_chaos)

\* legs_from_tiers(sub, is_chaos, single_prog), tier the Tier column of sub
legs_from_tiers(s, tier, is_chaos, single_prog) ==
    IF single_prog # None THEN <<single_prog>>
    ELSE LET allowed == IF is_chaos THEN {"A", "B", "C"} ELSE {"A", "B"}
             keep    == {i \in 1..Len(s) : tier[i] \in allowed}
             cprs    == {s[i].CPR_STD : i \in keep} \ {NaN}
             lo      == IF cprs = {} THEN 0 ELSE SetMin(cprs)
             hi      == IF cprs = {} THEN 0 ELSE SetMax(cprs)
             sorted  == List([k \in 1..Cardinality(keep) |->
                            CHOOSE i \in keep :
                                Cardinality({j \in keep :
                                    LegBefore(s, tier, lo, hi, j, i)}) = k - 1])
             progs   == List([k \in 1..Len(sorted) |-> s[sorted[k]].program])
             idx     == NotNaIdx(progs, 1)
         IN  cap_leg(List([k \in 1..Len(idx) |-> progs[idx[k]]]), is_chaos)

\* sequence_span: (start, end) or None, None held as the empty tuple
sequence_span(rs, start, length) ==
    LET end == start + (length - 1)
    IN  IF \A r \in start..end : r \in rs THEN <<start, end>> ELSE <<>>

\* strong_legs = (df.groupby("race")["MC_WIN"].max() >= 0.34).sum()
strong_legs(groups) ==
    Cardinality({r \in DOMAIN groups :
                    NGe(NaMax(Column(groups[r], "MC_WIN")), STRONG_LEG_MIN)})

\* a plausible slip: a race counts as strong only above the threshold
card_mult_strict(groups) ==
    LET n == Cardinality({r \in DOMAIN groups :
                 NLt(STRONG_LEG_MIN, NaMax(Column(groups[r], "MC_WIN")))})
    IN  IF n >= 3 THEN 150 ELSE IF n >= 1 THEN 100 ELSE 60

\* mult = 1.5 if strong_legs >= 3 else (1.0 if strong_legs >= 1 else 0.6),
\* in percent
card_mult(groups) ==
    IF strong_legs(groups) >= 3 THEN 150
    ELSE IF strong_legs(groups) >= 1 THEN 100 ELSE 60

\* the notes of emit (lines 268-272), in the order they are appended
EmitNotes(sp, cm, sm, cheaper) ==
    LET notes ==
            (IF \E r \in sp[1]..sp[2] : cm[r] THEN <<"Chaos legs spread">> ELSE <<>>)
         \o (IF \E r \in sp[1]..sp[2] : sm[r] # None THEN <<"Anchor single">> ELSE <<>>)
         \o (IF cheaper THEN <<"Trimmed to cap">> ELSE <<>>)
    IN  IF notes = <<>> THEN <<"Standard structure">> ELSE notes

----------------------------------------------------------------------------
(* Bounds and inputs of the horizontal-sequence specification               *)

MaxSpan   == 6     \* bet types whose span is at most MaxSpan races
MaxLoopSpan == 3   \* the same, for the runs checked for termination
MaxLegLen == 4     \* candidates per leg as emit builds it (0 = a data gap)

\* bankrolls in cents: negative, zero, $20, $50 (the reference scenario's cap
\* of $10.00 for a Pick 3), the default $500, and one the hard caps bound
BankrollChoices == {-10000, 0, 2000, 5000, 50000, 10000000}

\* a leg lists program numbers best first; its content is immaterial to trimming
LegOf(n) == [k \in 1..n |-> k]

NoRow == [sequence |-> "none"]

TrimIdle ==
    /\ seq_name = "none" /\ legs_in = <<>> /\ bankroll = 0 /\ cap = 0
    /\ legs_lists = <<>> /\ unit = 0 /\ row = NoRow /\ hpc = "idle"
    /\ span = <<>> /\ chaos_map = <<>> /\ single_map = <<>>

\* emit(seq_name, span, min_per_leg) entered with a span on the card, the
\* card starting at race 1 and holding no chaos race and no single
InitTrimSpans(longest) ==
    /\ seq_name \in {n \in SeqNames : SeqLength(n) <= longest}
    /\ \E f \in [1..SeqLength(seq_name) -> 0..MaxLegLen] :
          legs_in = [r \in 1..SeqLength(seq_name) |-> LegOf(f[r])]
    /\ bankroll \in BankrollChoices
    /\ span = <<1, SeqLength(seq_name)>>
    /\ chaos_map = [r \in 1..SeqLength(seq_name) |-> FALSE]
    /\ single_map = [r \in 1..SeqLength(seq_name) |-> None]
    /\ cap = 0 /\ legs_lists = <<>> /\ unit = 0 /\ row = NoRow
    /\ hpc = "emit"

InitTrim == InitTrimSpans(MaxSpan)

\* a plausible slip: the sequence is abandoned only when every leg is empty
HasEmptyLegAll(ll) == \A r \in 1..Len(ll) : Len(ll[r]) = 0

\* any(len(l)==0 for l in legs_lists)
HasEmptyLeg(ll) == \E r \in 1..Len(ll) : Len(ll[r]) = 0

\* emit lines 251-253: a leg of the span is empty, the sequence is abandoned
EmitAbandon ==
    /\ hpc = "emit"
    /\ HasEmptyLeg(legs_in)
    /\ hpc' = "none"
    /\ UNCHANGED <<seq_name, legs_in, bankroll, cap, legs_lists, unit, row>>
    /\ UNCHANGED <<span, chaos_map, single_map>>
    /\ UNCHANGED <<tierVars, mcVars, vertVars, cardVars, schemaVars, seedVars>>

\* emit lines 255-263 and trim_ticket_to_cap lines 193-203: the copy, the
\* quick exit and the unit rescale
TrimEnter ==
    /\ hpc = "emit"
    /\ ~HasEmptyLeg(legs_in)
    /\ LET u0 == MIN_UNITS(seq_name)
           c  == EmitCap(seq_name, bankroll)
           su == scaled_unit(seq_name, legs_in, u0, c)
       IN  /\ cap' = c
           /\ legs_lists' = legs_in
           /\ IF total_cost(legs_in, u0) <= c
              THEN unit' = u0 /\ hpc' = "ret"
              ELSE IF combos_count(legs_in) * su <= c
              THEN unit' = su /\ hpc' = "ret"
              ELSE unit' = su /\ hpc' = "loop"
    /\ UNCHANGED <<seq_name, legs_in, bankroll, row, span, chaos_map, single_map>>
    /\ UNCHANGED <<tierVars, mcVars, vertVars, cardVars, schemaVars, seedVars>>

\* trim_ticket_to_cap lines 207-220: one pass of the while loop
TrimLoop ==
    /\ hpc = "loop"
    /\ LET step == ShrinkStep(legs_lists, unit, cap, mins(seq_name))
       IN  /\ legs_lists' = step.legs
           /\ hpc' = IF step.again THEN "loop" ELSE "ret"
    /\ UNCHANGED <<seq_name, legs_in, bankroll, cap, unit, row>>
    /\ UNCHANGED <<span, chaos_map, single_map>>
    /\ UNCHANGED <<tierVars, mcVars, vertVars, cardVars, schemaVars, seedVars>>

\* emit lines 264-282: the row built from what trim_ticket_to_cap returned
EmitRow ==
    /\ hpc = "ret"
    /\ LET combos2  == combos_count(legs_lists)
           cost2    == combos2 * unit
           raw_cost == combos_count(legs_in) * MIN_UNITS(seq_name)
       IN  row' = [sequence   |-> seq_name,
                   start_race |-> span[1],
                   end_race   |-> span[2],
                   unit       |-> unit,
                   combos     |-> combos2,
                   cost       |-> cost2,
                   legs       |-> legs_lists,
                   notes      |-> EmitNotes(span, chaos_map, single_map,
                                            cost2 < raw_cost)]
    /\ hpc' = "row"
    /\ UNCHANGED <<seq_name, legs_in, bankroll, cap, legs_lists, unit>>
    /\ UNCHANGED <<span, chaos_map, single_map>>
    /\ UNCHANGED <<tierVars, mcVars, vertVars, cardVars, schemaVars, seedVars>>

NextTrim == EmitAbandon \/ TrimEnter \/ TrimLoop \/ EmitRow

----------------------------------------------------------------------------
(* apex_horizontal_bankroll_v1_8.py: build_sequences over one card           *)

MaxRaceNo == 4      \* race numbers of a card are drawn from 1..MaxRaceNo

\* base stakes in cents: $20 and the default $500
BaseChoices == {2000, 50000}

\* one row of the frame load_df returns
Row(p, c, m, a) == [program |-> p, CPR_STD |-> c, MC_WIN |-> m, adv |-> a]

\* the top-rated starter has probability 0.50 and leads by 5 points: a single
RaceSingle ==
    << Row(1, 90, 30, {}), Row(2, 95, 50, {}), Row(3, 80, 20, {}) >>

\* the top-rated starter has probability 0.34 exactly and leads by 2 points:
\* no single; tiers A, A, B, C
RaceEdge ==
    << Row(1, 90, 34, {}), Row(2, 88, 30, {}), Row(3, 82, 20, {}),
       Row(4, 70, 15, {}) >>

\* top probability 0.21, top-3 spread 2.0, two adversity columns flagged: chaos;
\* tiers A, A, B, B, B, C, C
RaceChaos ==
    << Row(1, 90, 21, {"cpr_break"}), Row(2, 89, 20, {"cpr_off"}),
       Row(3, 88, 19, {}), Row(4, 87, 15, {}), Row(5, 86, 10, {}),
       Row(6, 81, 10, {}), Row(7, 70, 5, {}) >>

\* as tight and as troubled, but the top probability is 0.22 exactly: no
\* chaos; tiers A, A, B, B, B.  The second starter is Tier A by its rating
\* rank alone: every Tier B starter has a higher hybrid score.
RaceWide ==
    << Row(1, 90, 22, {"cpr_break"}), Row(2, 89, 1, {"cpr_off"}),
       Row(3, 88, 20, {}), Row(4, 87, 19, {}), Row(5, 86, 19, {}) >>

\* the only starter has no program number: the race's leg is empty
RaceGap == << Row(NaN, 80, 20, {}) >>

\* no starter has a rating
RaceNoRating == << Row(1, NaN, 50, {}), Row(2, NaN, 50, {}) >>

RaceMenu == {RaceSingle, RaceEdge, RaceChaos, RaceWide, RaceGap, RaceNoRating}

\* the bet types in the order of the spans dict
SeqOrder == <<"Daily Double", "Pick 3", "Pick 4", "Pick 5", "Pick 6">>

\* sorted(...unique().tolist())
RECURSIVE SortedList(_)
SortedList(S) ==
    IF S = {} THEN <<>> ELSE <<SetMin(S)>> \o SortedList(S \ {SetMin(S)})

CardIdle ==
    /\ card = <<>> /\ base = 0 /\ races = <<>> /\ tiered = <<>>
    /\ mpos = 0 /\ emit_i = 0 /\ seq_rows = <<>> /\ cpc = "idle"

\* build_sequences(df, base) entered
InitCard ==
    /\ \E S \in SUBSET (1..MaxRaceNo) : card \in [S -> RaceMenu]
    /\ base \in BaseChoices
    /\ races = <<>> /\ tiered = <<>>
    /\ mpos = 0 /\ emit_i = 0 /\ seq_rows = <<>> /\ cpc = "start"

\* build_sequences lines 225-235: the race list, the multiplier, the tiers
BuildStart ==
    /\ cpc = "start"
    /\ races' = SortedList(DOMAIN card)
    /\ IF DOMAIN card = {}
       THEN /\ cpc' = "done"
            /\ UNCHANGED <<bankroll, tiered, mpos>>
       ELSE /\ bankroll' = (base * card_mult(card)) \div 100
            /\ tiered' = [r \in DOMAIN card |-> assign_tiers(card[r]).Tier]
            /\ mpos' = 1
            /\ cpc' = "maps"
    /\ UNCHANGED <<card, base, emit_i, seq_rows>>
    /\ UNCHANGED <<seq_name, legs_in, cap, legs_lists, unit, row, hpc>>
    /\ UNCHANGED <<span, chaos_map, single_map>>
    /\ UNCHANGED <<tierVars, mcVars, vertVars, schemaVars, seedVars>>

\* build_sequences lines 238-241: one pass of "for r in races".  An exception
\* of chaos_leg or detect_single is not caught: build_sequences ends with it.
PrecomputeRace ==
    /\ cpc = "maps"
    /\ LET r == races[mpos]
       IN  IF chaos_leg_raises(card[r]) \/ detect_single_raises(card[r])
           THEN /\ cpc' = "error"
                /\ UNCHANGED <<chaos_map, single_map, mpos, emit_i>>
           ELSE /\ chaos_map' = chaos_map @@ (r :> chaos_leg(card[r]))
                /\ single_map' = single_map @@ (r :> detect_single(card[r]))
                /\ mpos' = mpos + 1
                /\ IF mpos = Len(races)
                   THEN cpc' = "emit" /\ emit_i' = 1
                   ELSE cpc' = "maps" /\ UNCHANGED emit_i
    /\ UNCHANGED <<card, base, races, tiered, seq_rows>>
    /\ UNCHANGED <<seq_name, legs_in, bankroll, cap, legs_lists, unit, row, hpc, span>>
    /\ UNCHANGED <<tierVars, mcVars, vertVars, schemaVars, seedVars>>

\* legs_for_race
legs_for_race(r) == legs_from_tiers(card[r], tiered[r], chaos_map[r], single_map[r])

\* build_sequences lines 285-292 and 303-304, emit lines 248-250: the next
\* bet type; without a span emit returns None at once
EmitBegin ==
    /\ cpc = "emit" /\ hpc = "idle" /\ emit_i <= Len(SeqOrder)
    /\ LET name == SeqOrder[emit_i]
           sp   == sequence_span(DOMAIN card, races[1], SeqLength(name))
       IN  IF sp = <<>>
           THEN /\ emit_i' = emit_i + 1
                /\ UNCHANGED <<seq_name, span, legs_in, cap, legs_lists, unit, row, hpc>>
           ELSE /\ seq_name' = name
                /\ span' = sp
                /\ legs_in' = [k \in 1..SeqLength(name) |-> legs_for_race(sp[1] + k - 1)]
                /\ cap' = 0 /\ legs_lists' = <<>> /\ unit' = 0 /\ row' = NoRow
                /\ hpc' = "emit"
                /\ UNCHANGED emit_i
    /\ UNCHANGED <<card, base, races, tiered, mpos, seq_rows, cpc>>
    /\ UNCHANGED <<bankroll, chaos_map, single_map>>
    /\ UNCHANGED <<tierVars, mcVars, vertVars, schemaVars, seedVars>>

\* build_sequences line 305: "if row: rows.append(row)"
EmitEnd ==
    /\ cpc = "emit" /\ hpc \in {"row", "none"}
    /\ seq_rows' = IF hpc = "row" THEN Append(seq_rows, row) ELSE seq_rows
    /\ emit_i' = emit_i + 1
    /\ hpc' = "idle"
    /\ UNCHANGED <<card, base, races, tiered, mpos, cpc>>
    /\ UNCHANGED <<seq_name, legs_in, bankroll, cap, legs_lists, unit, row>>
    /\ UNCHANGED <<span, chaos_map, single_map>>
    /\ UNCHANGED <<tierVars, mcVars, vertVars, schemaVars, seedVars>>

\* build_sequences line 307: the frame of the collected rows is returned
BuildDone ==
    /\ cpc = "emit" /\ hpc = "idle" /\ emit_i > Len(SeqOrder)
    /\ cpc' = "done"
    /\ UNCHANGED <<card, base, races, tiered, mpos, emit_i, seq_rows>>
    /\ UNCHANGED <<trimVars, tierVars, mcVars, vertVars, schemaVars, seedVars>>

NextCard ==
    \/ BuildStart \/ PrecomputeRace \/ EmitBegin \/ EmitEnd \/ BuildDone
    \/ EmitAbandon \/ TrimEnter \/ TrimLoop \/ EmitRow

----------------------------------------------------------------------------
(* Bounds and inputs of the chaos / single detection specification          *)

MaxDetectStarters == 3    \* starters of the race chaos_leg and detect_single see

\* ratings 3.0 apart, probabilities around 0.22 and at 0.34, and zero, one or
\* two adversity columns flagged in a row
DetectRowChoices ==
    {87, 90} \X {21, 22, 34} \X {{}, {"cpr_break"}, {"cpr_break", "cpr_off"}}

DetectRacesOf(n) ==
    {[i \in 1..n |-> Row(i, f[i][1], f[i][2], f[i][3])] :
        f \in [1..n -> DetectRowChoices]}

\* build_sequences entered on a card of one race
InitDetect ==
    /\ \E n \in 1..MaxDetectStarters : card \in [{1} -> DetectRacesOf(n)]
    /\ base = 50000
    /\ races = <<>> /\ tiered = <<>>
    /\ mpos = 0 /\ emit_i = 0 /\ seq_rows = <<>> /\ cpc = "start"

\* build_sequences up to the end of the loop that fills chaos_map, single_map
NextDetect == BuildStart \/ PrecomputeRace

----------------------------------------------------------------------------
(* apex_horizontal_bankroll_v1_3.py: sequence_rows over one card             *)

RECURSIVE SumSeq(_)
SumSeq(q) == IF q = <<>> THEN 0 ELSE Head(q) + SumSeq(Tail(q))

\* is_chaos_leg: (cpr_std <= 3.0 and mc_top < 0.27) or (mc_top < 0.20) with the
\* population deviation std(ddof=0); std <= 3 is n*sum(x^2) - sum(x)^2 <= 9*n^2
is_chaos_leg(s) ==
    LET n      == Len(s)
        sum    == SumSeq(Column(s, "CPR_STD"))
        sumsq  == SumSeq([i \in 1..n |-> s[i].CPR_STD * s[i].CPR_STD])
        mc_top == SetMax({s[i].MC_WIN : i \in 1..n})
    IN  (n * sumsq - sum * sum <= 9 * n * n /\ mc_top < 27) \/ mc_top < 20

\* legs_from_tier(sub, True, True, useC): the programs of the tiers asked for,
\* sorted; the programs of a race are distinct
legs_from_tier(s, tier, useC) ==
    SortedList({s[i].program : i \in {j \in 1..Len(s) :
                    tier[j] \in (IF useC THEN {"A", "B", "C"} ELSE {"A", "B"})}})

\* caps of sequence_rows, in cents
caps(name) ==
    CASE name = "Daily Double" -> 10000
      [] name = "Pick 3" -> 8000
      [] name = "Pick 4" -> 12000
      [] name = "Pick 5" -> 15000
      [] name = "Pick 6" -> 20000

\* the row emit of sequence_rows appends for a span all of whose races are on
\* the card: no leg is trimmed, the cost is min(cost, alloc_cap, hard_cap) and
\* the unit is rescaled, never below the minimum unit
emit13(name, sp, groups, b) ==
    LET cm(r)  == is_chaos_leg(groups[r])
        leg(r) == legs_from_tier(groups[r], assign_tiers(groups[r]).Tier, cm(r))
        ll     == [k \in 1..(sp[2] - sp[1] + 1) |-> leg(sp[1] + k - 1)]
        combos == combos_count(ll)
        cost   == combos * MIN_UNITS(name)
        final  == Min2(cost, Min2((b * ALLOC(name)) \div 100, caps(name)))
        u      == IF final < cost
                  THEN Max2(MIN_UNITS(name), RoundDiv(final, combos))
                  ELSE MIN_UNITS(name)
    IN  [sequence |-> name, start_race |-> sp[1], end_race |-> sp[2],
         unit |-> u, combos |-> combos,
         cost |-> IF final < cost THEN combos * u ELSE final,
         legs |-> ll,
         notes |-> IF \E r \in sp[1]..sp[2] : cm(r)
                   THEN <<"Chaos legs spread">> ELSE <<"Standard structure">>]

\* the spans of sequence_rows (lines 103-108) that pass the test of emit
\* "if e not in races: return" (line 146), in the order of the emit calls
Spans13(rs) ==
    LET start == SetMin(rs)
        Ends(name) == start + SeqLength(name) - 1 \in rs
    IN  SelectSeq(SeqOrder, Ends)

\* sequence_rows(df, base): err is TRUE when the call ends with an exception:
\* races[0] of an empty card (line 103), or chaos_map[r] (a dict over the
\* races of the card, line 116) for a race number of a span that is not on the
\* card
sequence_rows(groups, b0) ==
    LET rs    == DOMAIN groups
        b     == (b0 * card_mult(groups)) \div 100
        names == Spans13(rs)
        sp(k) == <<SetMin(rs), SetMin(rs) + SeqLength(names[k]) - 1>>
    IN  IF rs = {} THEN [err |-> TRUE, rows |-> <<>>]
        ELSE IF \E k \in 1..Len(names) : \E r \in sp(k)[1]..sp(k)[2] : r \notin rs
        THEN [err |-> TRUE, rows |-> <<>>]
        ELSE [err |-> FALSE,
              rows |-> [k \in 1..Len(names) |-> emit13(names[k], sp(k), groups, b)]]

\* the races sequence_rows is run on: every starter has a program number, a
\* rating and a probability
Card13Menu == {RaceSingle, RaceEdge, RaceChaos, RaceWide}

InitCard13 ==
    /\ \E S \in SUBSET (1..MaxRaceNo) : card \in [S -> Card13Menu]
    /\ base \in BaseChoices
    /\ races = <<>> /\ tiered = <<>>
    /\ mpos = 0 /\ emit_i = 0 /\ seq_rows = <<>> /\ cpc = "start13"

\* sequence_rows(df, base) as main calls it
SequenceRows13 ==
    /\ cpc = "start13"
    /\ LET res == sequence_rows(card, base)
       IN  /\ seq_rows' = res.rows
           /\ cpc' = IF res.err THEN "error" ELSE "done"
    /\ races' = SortedList(DOMAIN card)
    /\ bankroll' = (base * card_mult(card)) \div 100
    /\ UNCHANGED <<card, base, tiered, mpos, emit_i>>
    /\ UNCHANGED <<seq_name, legs_in, cap, legs_lists, unit, row, hpc>>
    /\ UNCHANGED <<span, chaos_map, single_map>>
    /\ UNCHANGED <<tierVars, mcVars, vertVars, schemaVars, seedVars>>

NextCard13 == SequenceRows13

----------------------------------------------------------------------------
(* Column resolution: apex/mc_simulator.py find_cpr_column,
   apex_horizontal_bankroll_v1_8.py load_df, verticals_mc_builder_v1_3.py
   load_df.  A column name is the sequence of its characters.               *)

MaxTableRaces == 2     \* races of the input table: 0..MaxTableRaces
MaxSimRuns    == 2     \* runs of the simulator: 0..MaxSimRuns

\* str.lower() on the letters the names are written with
Lower(ch) ==
    CASE ch = "C" -> "c" [] ch = "P" -> "p" [] ch = "R" -> "r"
      [] ch = "T" -> "t" [] ch = "M" -> "m" [] ch = "W" -> "w"
      [] OTHER -> ch

NotSeparator(ch) == ch # "_" /\ ch # " "

\* c.lower().replace("_", "").replace(" ", "")
Normalize(name) == SelectSeq([i \in 1..Len(name) |-> Lower(name[i])], NotSeparator)

\* candidates of mc_simulator.find_cpr_column
SimCandidates ==
    << <<"C", "P", "R", "_", "C", "o", "m", "p", "o", "s", "i", "t", "e">>,
       <<"c", "p", "r", "_", "c", "o", "m", "p", "o", "s", "i", "t", "e">>,
       <<"c", "p", "r", "_", "_", "c", "o", "m", "p", "o", "s", "i", "t", "e">>,
       <<"c", "p", "r", "c", "o", "m", "p", "o", "s", "i", "t", "e">>,
       <<"c", "p", "r", " ", "c", "o", "m", "p", "o", "s", "i", "t", "e">> >>

\* mc_simulator.find_cpr_column returns a column (FALSE: raises ValueError)
find_cpr_column(cols) ==
    \E k \in 1..Len(SimCandidates) : \E col \in cols :
        Normalize(col) = Normalize(SimCandidates[k])

\* CPR_CANDIDATES and MC_CANDIDATES of apex_horizontal_bankroll_v1_8.py
CPR_CANDIDATES ==
    << <<"C", "P", "R", "_", "T", "o", "t", "a", "l">>, <<"C", "P", "R", "_", "C", "o", "m", "p", "o", "s", "i", "t", "e">>,
       <<"c", "p", "r", "_", "t", "o", "t", "a", "l">>, <<"c", "p", "r", "_", "c", "o", "m", "p", "o", "s", "i", "t", "e">>,
       <<"C", "P", "R", "_", "C", "o", "m", "p", "o", "s", "i", "t", "e", "_", "x">>,
       <<"C", "P", "R", "_", "C", "l", "e", "a", "n", "e", "d">> >>

MC_CANDIDATES ==
    << <<"M", "C", "_", "W", "i", "n", "P", "r", "o", "b">>, <<"m", "c", "_", "w", "i", "n", "p", "r", "o", "b">>,
       <<"M", "C", "_", "W", "i", "n", "P", "c", "t">>, <<"m", "c", "_", "w", "i", "n", "p", "c", "t">> >>

RaceColumn == <<"r", "a", "c", "e">>

\* find_first_col(df, candidates) is not None
find_first_col(cols, candidates) == \E k \in 1..Len(candidates) : candidates[k] \in cols

\* no column resolved (find_first_col returns None, the others raise)
NoColumn == <<>>

\* for c in candidates: if c in df.columns: return c
FirstCol(cols, candidates) ==
    IF find_first_col(cols, candidates)
    THEN candidates[SetMin({k \in 1..Len(candidates) : candidates[k] \in cols})]
    ELSE NoColumn

\* CPR_CANDIDATES of apex_montecarlo_v1.py, "in priority order"
SIM_CPR_CANDIDATES ==
    << <<"C", "P", "R", "_", "C", "o", "m", "p", "o", "s", "i", "t", "e">>,
       <<"C", "P", "R", "_", "T", "o", "t", "a", "l">>,
       <<"C", "P", "R", "_", "T", "o", "t", "a", "l", "_", "S", "c", "o", "r", "e">>,
       <<"C", "P", "R", "_", "C", "o", "m", "p", "o", "s", "i", "t", "e", "_", "x">>,
       <<"C", "P", "R", "_", "C", "o", "m", "p", "o", "s", "i", "t", "e", "_", "y">>,
       <<"C", "P", "R", "_", "C", "l", "e", "a", "n", "e", "d">> >>

\* apex_montecarlo_v1.find_cpr_column
find_cpr_column_v1(cols) == FirstCol(cols, SIM_CPR_CANDIDATES)

\* mc_simulator.find_cpr_column: the columns it may return, which is the
\* first column in table order whose normalised name is that of the first
\* candidate with a match; the table order is not kept by the set of columns
SimColumns(cols) ==
    LET hit(k) == {col \in cols : Normalize(col) = Normalize(SimCandidates[k])}
        ks     == {k \in 1..Len(SimCandidates) : hit(k) # {}}
    IN  IF ks = {} THEN {} ELSE hit(SetMin(ks))

\* verticals load_df lines 8-11: CPR_Total if present, else CPR_Composite
VertRating(cols) ==
    IF CPR_CANDIDATES[1] \in cols THEN CPR_CANDIDATES[1]
    ELSE IF CPR_CANDIDATES[2] \in cols THEN CPR_CANDIDATES[2]
    ELSE NoColumn

\* the rating column of verticals load_df: CPR_Total or CPR_Composite
VertRatingNames == {<<"C", "P", "R", "_", "T", "o", "t", "a", "l">>, <<"C", "P", "R", "_", "C", "o", "m", "p", "o", "s", "i", "t", "e">>}

\* the columns an input table may carry besides program, pp and horse_name,
\* which are always there
ColumnMenu ==
    { <<"C", "P", "R", "_", "C", "o", "m", "p", "o", "s", "i", "t", "e">>, <<"c", "p", "r", " ", "c", "o", "m", "p", "o", "s", "i", "t", "e">>,
      <<"C", "P", "R", "_", "T", "o", "t", "a", "l">>, <<"c", "p", "r", "_", "t", "o", "t", "a", "l">>,
      <<"M", "C", "_", "W", "i", "n", "P", "r", "o", "b">>, RaceColumn }

\* the exceptions raised for a column that is missing
SchemaErrors == {"SystemExit", "ValueError", "KeyError"}

SchemaIdle ==
    /\ entry = "none" /\ columns = {} /\ nraces = 0 /\ sruns = 0
    /\ srace = 0 /\ strial = 0 /\ tallied = 0 /\ produced = 0 /\ spc = "idle"
    /\ rating_col = NoColumn

\* an entry point is started on a table with nraces distinct race values
InitSchema ==
    /\ entry \in {"simulator", "horizontals", "verticals"}
    /\ columns \in SUBSET ColumnMenu
    /\ nraces \in 0..MaxTableRaces
    /\ sruns \in (IF entry = "simulator" THEN 0..MaxSimRuns ELSE {0})
    /\ srace = 0 /\ strial = 0 /\ tallied = 0 /\ produced = 0
    /\ spc = IF entry = "simulator" THEN "sim" ELSE "load"
    /\ rating_col = NoColumn

\* apex_horizontal_bankroll_v1_8.load_df: the rating column, the probability
\* column and the race column, in this order
LoadHorizontals ==
    /\ spc = "load" /\ entry = "horizontals"
    /\ spc' = IF ~find_first_col(columns, CPR_CANDIDATES) THEN "SystemExit"
              ELSE IF ~find_first_col(columns, MC_CANDIDATES) THEN "SystemExit"
              ELSE IF RaceColumn \notin columns THEN "SystemExit"
              ELSE "build"
    /\ rating_col' = FirstCol(columns, CPR_CANDIDATES)
    /\ UNCHANGED <<entry, columns, nraces, sruns, srace, strial, tallied, produced>>
    /\ UNCHANGED <<tierVars, mcVars, vertVars, trimVars, cardVars, seedVars>>

\* verticals_mc_builder_v1_3.load_df: the rating column, then the needed ones
LoadVerticals ==
    /\ spc = "load" /\ entry = "verticals"
    /\ spc' = IF columns \cap VertRatingNames = {} THEN "SystemExit"
              ELSE IF ~({RaceColumn, MC_CANDIDATES[1]} \subseteq columns) THEN "SystemExit"
              ELSE "build"
    /\ rating_col' = VertRating(columns)
    /\ UNCHANGED <<entry, columns, nraces, sruns, srace, strial, tallied, produced>>
    /\ UNCHANGED <<tierVars, mcVars, vertVars, trimVars, cardVars, seedVars>>

\* main after load_df: the tickets or rows of the next race are built
BuildRace ==
    /\ spc = "build"
    /\ IF srace < nraces
       THEN srace' = srace + 1 /\ produced' = produced + 1 /\ UNCHANGED spc
       ELSE spc' = "done" /\ UNCHANGED <<srace, produced>>
    /\ UNCHANGED <<entry, columns, nraces, sruns, strial, tallied, rating_col>>
    /\ UNCHANGED <<tierVars, mcVars, vertVars, trimVars, cardVars, seedVars>>

\* mc_simulator.run_mc_simulation line 65: df.groupby("race") raises KeyError
\* without a race column; after the last race the frame is returned
SimGroup ==
    /\ spc = "sim" /\ srace = 0 /\ strial = 0 /\ tallied = 0
    /\ \/ RaceColumn \notin columns /\ spc' = "KeyError"
       \/ RaceColumn \in columns /\ nraces = 0 /\ spc' = "done"
    /\ UNCHANGED <<entry, columns, nraces, sruns, srace, strial, tallied, produced>>
    /\ UNCHANGED rating_col
    /\ UNCHANGED <<tierVars, mcVars, vertVars, trimVars, cardVars, seedVars>>

\* run_mc_simulation lines 79-83: one trial; simulate_race_once resolves the
\* rating column first (line 34) and the tallies follow its return
SimTrial ==
    /\ spc = "sim" /\ RaceColumn \in columns
    /\ srace < nraces /\ strial < sruns
    /\ IF find_cpr_column(columns)
       THEN /\ strial' = strial + 1 /\ tallied' = tallied + 1 /\ UNCHANGED spc
            /\ rating_col' \in SimColumns(columns)
       ELSE spc' = "ValueError" /\ UNCHANGED <<strial, tallied, rating_col>>
    /\ UNCHANGED <<entry, columns, nraces, sruns, srace, produced>>
    /\ UNCHANGED <<tierVars, mcVars, vertVars, trimVars, cardVars, seedVars>>

\* run_mc_simulation lines 86-93: the rows of the race; wins[pp] / runs raises
\* ZeroDivisionError when runs is 0.  After the last race the frame is returned.
SimStore ==
    /\ spc = "sim" /\ RaceColumn \in columns
    /\ srace < nraces /\ strial = sruns
    /\ IF sruns = 0
       THEN spc' = "ZeroDivisionError" /\ UNCHANGED <<srace, strial, produced>>
       ELSE /\ produced' = produced + 1
            /\ srace' = srace + 1
            /\ strial' = 0
            /\ spc' = IF srace + 1 = nraces THEN "done" ELSE "sim"
    /\ UNCHANGED <<entry, columns, nraces, sruns, tallied, rating_col>>
    /\ UNCHANGED <<tierVars, mcVars, vertVars, trimVars, cardVars, seedVars>>

NextSchema ==
    LoadHorizontals \/ LoadVerticals \/ BuildRace \/ SimGroup \/ SimTrial \/ SimStore

----------------------------------------------------------------------------
(* apex_montecarlo_v1.py, numpy.py: run_mc_simulation over a card with the
   random source seeded beforehand.  RandomModule.choice draws from the one
   generator of the process (_random.random()); neither simulator creates a
   generator of its own or takes a seed.                                    *)

MaxSeedRaces == 2      \* races of the card
MaxSeedRuns  == 2      \* sims
Seeds        == {0, 1}

\* the generator has RngModulus states; a stand-in for the Mersenne Twister
\* of the random module: a fixed successor function on the state
RngModulus == 8

\* random.seed(s)
SeedState(s) == s % RngModulus

\* the state after one call of random()
RngStep(x) == (5 * x + 3) % RngModulus

\* the value random() returns from state x, as a numerator over RGrid
RngDraw(x) == x % RGrid

SeedRaces == MCRacesOf(1) \cup MCRacesOf(2)

SeedIdle ==
    /\ mcard = <<>> /\ seed = 0 /\ rstate = 0 /\ mruns = 0 /\ mrace = 0
    /\ mtrial = 0 /\ mwins = <<>> /\ mresults = <<>> /\ qpc = "idle"

\* random.seed(seed); run_mc_simulation(df, sims) entered
InitSeed ==
    /\ \E n \in 1..MaxSeedRaces : mcard \in [1..n -> SeedRaces]
    /\ seed \in Seeds
    /\ rstate = SeedState(seed)
    /\ mruns \in 1..MaxSeedRuns
    /\ mrace = 1 /\ mtrial = 0
    /\ mwins = [i \in 1..Len(mcard[1]) |-> 0]
    /\ mresults = <<>>
    /\ qpc = "run"

\* one pass of "for _ in range(sims)": simulate_race_once draws once from the
\* shared generator
SeededTrial ==
    /\ qpc = "run" /\ mtrial < mruns
    /\ LET winner == simulate_race_once_direct(mcard[mrace], RngDraw(rstate), RGrid)
       IN  mwins' = [mwins EXCEPT ![winner] = @ + 1]
    /\ rstate' = RngStep(rstate)
    /\ mtrial' = mtrial + 1
    /\ UNCHANGED <<mcard, seed, mruns, mrace, mresults, qpc>>
    /\ UNCHANGED <<tierVars, mcVars, vertVars, trimVars, cardVars, schemaVars>>

\* value_counts and the rows of the race; then the next group, or the return
SeededStore ==
    /\ qpc = "run" /\ mtrial = mruns
    /\ mresults' = Append(mresults, mwins)
    /\ IF mrace < Len(mcard)
       THEN /\ mrace' = mrace + 1
            /\ mtrial' = 0
            /\ mwins' = [i \in 1..Len(mcard[mrace + 1]) |-> 0]
            /\ UNCHANGED qpc
       ELSE /\ qpc' = "done"
            /\ UNCHANGED <<mrace, mtrial, mwins>>
    /\ UNCHANGED <<mcard, seed, rstate, mruns>>
    /\ UNCHANGED <<tierVars, mcVars, vertVars, trimVars, cardVars, schemaVars>>

NextSeed == SeededTrial \/ SeededStore

----------------------------------------------------------------------------
(* Specifications                                                           *)

NextTier == AssignTiers

InitTierOnly == InitTier /\ MCIdle /\ VertIdle /\ TrimIdle /\ CardIdle /\ SchemaIdle /\ SeedIdle
InitMCOnly   == TierIdle /\ InitMC /\ VertIdle /\ TrimIdle /\ CardIdle /\ SchemaIdle /\ SeedIdle
InitVertOnly == TierIdle /\ MCIdle /\ InitVert /\ TrimIdle /\ CardIdle /\ SchemaIdle /\ SeedIdle
InitTrimOnly == TierIdle /\ MCIdle /\ VertIdle /\ InitTrim /\ CardIdle /\ SchemaIdle /\ SeedIdle
InitCardOnly == TierIdle /\ MCIdle /\ VertIdle /\ TrimIdle /\ InitCard /\ SchemaIdle /\ SeedIdle
InitDetectOnly == TierIdle /\ MCIdle /\ VertIdle /\ TrimIdle /\ InitDetect /\ SchemaIdle /\ SeedIdle
InitSchemaOnly == TierIdle /\ MCIdle /\ VertIdle /\ TrimIdle /\ CardIdle /\ InitSchema /\ SeedIdle
InitSeedOnly ==
    TierIdle /\ MCIdle /\ VertIdle /\ TrimIdle /\ CardIdle /\ SchemaIdle /\ InitSeed
InitCard13Only == TierIdle /\ MCIdle /\ VertIdle /\ TrimIdle /\ InitCard13 /\ SchemaIdle /\ SeedIdle

SpecTier == InitTierOnly /\ [][NextTier]_vars
SpecMC   == InitMCOnly /\ [][NextMC]_vars
SpecVert == InitVertOnly /\ [][NextVert]_vars
SpecTrim == InitTrimOnly /\ [][NextTrim]_vars
SpecCard == InitCardOnly /\ [][NextCard]_vars

\* trim_ticket_to_cap is sequential code: a step that can be taken is taken
InitTrimLoopOnly ==
    TierIdle /\ MCIdle /\ VertIdle /\ InitTrimSpans(MaxLoopSpan) /\ CardIdle
    /\ SchemaIdle /\ SeedIdle
SpecTrimFair == InitTrimLoopOnly /\ [][NextTrim]_vars /\ WF_vars(NextTrim)
SpecDetect == InitDetectOnly /\ [][NextDetect]_vars
SpecCard13 == InitCard13Only /\ [][NextCard13]_vars
SpecSchema == InitSchemaOnly /\ [][NextSchema]_vars
SpecSeed == InitSeedOnly /\ [][NextSeed]_vars

\* the whole program: one of the components is run
Init ==
    \/ InitTierOnly \/ InitMCOnly \/ InitVertOnly \/ InitTrimOnly
    \/ InitCardOnly \/ InitDetectOnly \/ InitCard13Only \/ InitSchemaOnly
    \/ InitSeedOnly

Next ==
    NextTier \/ NextMC \/ NextVert \/ NextTrim \/ NextCard \/ NextCard13 \/ NextSchema
    \/ NextSeed

Spec == Init /\ [][Next]_vars

----------------------------------------------------------------------------
(* Claims about tiering and ranking, checked under SpecTier                 *)

\* the min-rank of row i by rating, descending: one more than the number of
\* starters rated strictly higher
MinRankOf(s, i) == 1 + Cardinality({j \in 1..Len(s) : s[j].CPR_STD > s[i].CPR_STD})

LeaderRating(s) == SetMax({s[j].CPR_STD : j \in 1..Len(s)})

\* the tier the stated rule gives row i (0.28 = 28 percent, 0.16 = 16 percent)
TierByRule(s, i) ==
    IF MinRankOf(s, i) <= 2 \/ s[i].MC_WIN >= 28 THEN "A"
    ELSE IF LeaderRating(s) - s[i].CPR_STD <= 8 \/ s[i].MC_WIN >= 16 THEN "B"
    ELSE "C"

\* C1: once a race has been classified (once or twice), every starter has
\* exactly one tier, and it is the tier of the stated rule: A iff min-rank by
\* rating <= 2 or probability >= 0.28; B iff not A and (leader rating - rating
\* <= 8.0 or probability >= 0.16); C otherwise.  A second classification of the
\* same race leaves the same tiers.
C1_TiersFollowRule ==
    tcalls >= 1 =>
        /\ Len(Tier) = Len(sub)
        /\ \A i \in 1..Len(sub) : Tier[i] \in {"A", "B", "C"} /\ Tier[i] = TierByRule(sub, i)

\* a race classified twice in which one starter is A by probability alone and
\* another is B by probability alone
C1_Witness ==
    /\ tcalls = 2
    /\ \E i \in 1..Len(sub) :
          Tier[i] = "A" /\ MinRankOf(sub, i) > 2 /\ sub[i].MC_WIN = 28
    /\ \E i \in 1..Len(sub) :
          Tier[i] = "B" /\ LeaderRating(sub) - sub[i].CPR_STD > 8 /\ sub[i].MC_WIN = 16

\* C2 (as amended): the reference race of five starters, ratings
\* [90,85,80,75,70], probabilities [0.30,0.20,0.20,0.15,0.15], classifies as
\* A, A, B, C, C: starter 3 has probability 0.20 >= 0.16 and is Tier B.
C2_ScenarioTiers ==
    (sub = ScenarioRace /\ tcalls >= 1) => Tier = <<"A", "A", "B", "C", "C">>

\* C2 as stated: starters 1 and 2 are Tier A and starters 3, 4, 5 are Tier C
C2_AsStated ==
    (sub = ScenarioRace /\ tcalls >= 1) => Tier = <<"A", "A", "C", "C", "C">>

\* the reference race, classified
C2_Witness == sub = ScenarioRace /\ tcalls >= 1 /\ Len(Tier) = 5

\* C3: the rank by rating (descending) is the min-rank: equal ratings have
\* equal rank and every rank is 1 + the number of strictly higher ratings, so
\* after k starters tied for the best rating the next rating has rank k + 1.
C3_MinRank ==
    tcalls >= 1 =>
        /\ Len(cpr_rank) = Len(sub)
        /\ \A i \in 1..Len(sub) : cpr_rank[i] = MinRankOf(sub, i)
        /\ \A i, j \in 1..Len(sub) :
              sub[i].CPR_STD = sub[j].CPR_STD => cpr_rank[i] = cpr_rank[j]
        /\ LET best == {i \in 1..Len(sub) : sub[i].CPR_STD = LeaderRating(sub)}
               rest == {sub[i].CPR_STD : i \in (1..Len(sub)) \ best}
           IN  \A i \in 1..Len(sub) :
                  (rest # {} /\ sub[i].CPR_STD = SetMax(rest))
                      => cpr_rank[i] = Cardinality(best) + 1

\* two starters tied for the best rating, and a lower-rated one ranked third
C3_Witness ==
    /\ tcalls >= 1
    /\ \E i, j, k \in 1..Len(sub) :
          /\ i # j
          /\ sub[i].CPR_STD = LeaderRating(sub) /\ sub[j].CPR_STD = LeaderRating(sub)
          /\ sub[k].CPR_STD < LeaderRating(sub)
          /\ cpr_rank[i] = 1 /\ cpr_rank[j] = 1 /\ cpr_rank[k] = 3

----------------------------------------------------------------------------
(* Claims about the Monte Carlo simulators, checked under SpecMC            *)

\* C4: for a non-empty race and a trial count > 0, once run_mc_simulation has
\* ended every trial has credited exactly one winner among the race's
\* starters: the win tallies sum to the trial count, and the reported win
\* probabilities (win / of) sum to 1, each in [0, 1].
C4_WinProbabilitiesSumToOne ==
    (mcPc \in {"done", "error"} /\ group # <<>> /\ runs > 0) =>
        /\ mcPc = "done"
        /\ SeqSum(wins) = runs
        /\ Len(out_rows) = Len(group)
        /\ \A i \in 1..Len(out_rows) :
              out_rows[i].of = runs /\ 0 <= out_rows[i].win /\ out_rows[i].win <= runs
        /\ SeqSum([i \in 1..Len(out_rows) |-> out_rows[i].win]) = runs

----------------------------------------------------------------------------
(* Claims about the vertical tickets, checked under SpecVert                *)

\* row i is ahead of row j by composite score wc*rating + wp*probability;
\* equal scores keep row order
Ahead(s, wc, wp, i, j) ==
    LET si == wc * s[i].CPR_Total + wp * s[i].MC_WinProb
        sj == wc * s[j].CPR_Total + wp * s[j].MC_WinProb
    IN  si > sj \/ (si = sj /\ i < j)

\* the top n programs by composite score, best first
TopPrograms(s, wc, wp, n) ==
    [k \in 1..Min2(n, Len(s)) |->
        s[CHOOSE i \in 1..Len(s) :
            Cardinality({j \in 1..Len(s) : Ahead(s, wc, wp, j, i)}) = k - 1].program]

SeqRange(q) == {q[k] : k \in 1..Len(q)}

NoRepeat(ticket) == \A p, q \in 1..Len(ticket) : p # q => ticket[p] # ticket[q]

\* every ticket of rows: no program twice, first from anchors, the rest from pool
TicketsWellFormed(rows, anchors, pool) ==
    \A k \in 1..Len(rows) :
        /\ NoRepeat(rows[k].ticket)
        /\ rows[k].ticket[1] \in SeqRange(anchors)
        /\ \A p \in 2..Len(rows[k].ticket) : rows[k].ticket[p] \in SeqRange(pool)

\* C5: no emitted exacta, trifecta or superfecta ticket holds a program number
\* twice; its first position is one of the top 2 by composite score and every
\* other position is in the inclusion pool (top 5, 6, 7).
C5_TicketsDistinctFromPools ==
    /\ TicketsWellFormed(ex_rows, TopPrograms(vsub, 70, 30, 2), TopPrograms(vsub, 70, 30, 5))
    /\ TicketsWellFormed(tri_rows, TopPrograms(vsub, 65, 35, 2), TopPrograms(vsub, 65, 35, 6))
    /\ TicketsWellFormed(sup_rows, TopPrograms(vsub, 60, 40, 2), TopPrograms(vsub, 60, 40, 7))
    /\ \A k \in 1..Len(ex_rows) : Len(ex_rows[k].ticket) = 2
    /\ \A k \in 1..Len(tri_rows) : Len(tri_rows[k].ticket) = 3
    /\ \A k \in 1..Len(sup_rows) : Len(sup_rows[k].ticket) = 4

\* all three builders have run; a trifecta ticket starts with the second anchor
\* and a superfecta ticket carries the second anchor behind the first
C5_Witness ==
    /\ vpc = "done"
    /\ ex_rows # <<>>
    /\ LET A == TopPrograms(vsub, 65, 35, 2)
       IN  Len(A) = 2 /\ \E k \in 1..Len(tri_rows) : tri_rows[k].ticket[1] = A[2]
    /\ LET A == TopPrograms(vsub, 60, 40, 2)
       IN  /\ Len(A) = 2
           /\ \E k \in 1..Len(sup_rows) :
                 sup_rows[k].ticket[1] = A[1] /\ A[2] \in SeqRange(sup_rows[k].ticket)

PosIn(q, x) == CHOOSE k \in 1..Len(q) : q[k] = x

\* ticket t comes before ticket u in the nested-loop order over pool
LoopBefore(t, u, pool) ==
    \E p \in 1..Len(t) :
        /\ \A q \in 1..(p - 1) : t[q] = u[q]
        /\ PosIn(pool, t[p]) < PosIn(pool, u[p])

\* rows are the first min(N, max) of the valid tickets in nested-loop order
FirstOfEnumeration(rows, valid, pool, max) ==
    /\ Len(rows) = Min2(Cardinality(valid), max)
    /\ \A k \in 1..Len(rows) : rows[k].ticket \in valid
    /\ \A k \in 1..(Len(rows) - 1) : LoopBefore(rows[k].ticket, rows[k + 1].ticket, pool)
    /\ \A v \in valid :
          (\A k \in 1..Len(rows) : rows[k].ticket # v)
              => (rows # <<>> /\ LoopBefore(rows[Len(rows)].ticket, v, pool))

\* C6: for each bet type the emitted tickets are the first min(N, max) tickets
\* of the nested-loop enumeration (anchor outermost, then the pool positions in
\* pool order), N the number of valid tuples, max 24 / 24 / 60.
C6_FirstTicketsKept ==
    /\ vpc \in {"trifecta", "super", "done"} =>
          LET A == SeqRange(TopPrograms(vsub, 70, 30, 2))
              B == TopPrograms(vsub, 70, 30, 5)
              V == {t \in A \X SeqRange(B) : NoRepeat(t)}
          IN  FirstOfEnumeration(ex_rows, V, B, 24)
    /\ vpc \in {"super", "done"} =>
          LET A == SeqRange(TopPrograms(vsub, 65, 35, 2))
              B == TopPrograms(vsub, 65, 35, 6)
              V == {t \in A \X SeqRange(B) \X SeqRange(B) : NoRepeat(t)}
          IN  FirstOfEnumeration(tri_rows, V, B, 24)
    /\ vpc = "done" =>
          LET A == SeqRange(TopPrograms(vsub, 60, 40, 2))
              B == TopPrograms(vsub, 60, 40, 7)
              V == {t \in A \X SeqRange(B) \X SeqRange(B) \X SeqRange(B) : NoRepeat(t)}
          IN  FirstOfEnumeration(sup_rows, V, B, 60)

\* a race where the exacta list is whole (8 of 8) and the trifecta and the
\* superfecta lists are cut (24 of 40, 60 of 240)
C6_Witness ==
    /\ vpc = "done" /\ Len(vsub) >= 7
    /\ Len(ex_rows) = 8 /\ Len(tri_rows) = 24 /\ Len(sup_rows) = 60

----------------------------------------------------------------------------
(* Claims about trimming, checked under SpecTrim                            *)

LegSizes(ll) == [r \in 1..Len(ll) |-> Len(ll[r])]

\* the minimum unit of the bet type, in cents: 2.00 Daily Double, 0.20 Pick 3..6
MinUnitOf(name) == IF name = "Daily Double" THEN 200 ELSE 20

\* the per-leg floor of the bet type: 2 Daily Double, 1 Pick 3..6
FloorOf(name) == IF name = "Daily Double" THEN 2 ELSE 1

\* trim_ticket_to_cap has been entered (unit and cap are set)
InTrim == hpc \in {"loop", "ret", "row"}

\* trim_ticket_to_cap has returned
Returned == hpc \in {"ret", "row"}

\* the reference scenario: a Pick 3 of three legs of 4 candidates (64
\* combinations, raw cost 12.80) under a bankroll of $50, so the cap is $10.00
TrimScenario ==
    /\ seq_name = "Pick 3"
    /\ legs_in = <<LegOf(4), LegOf(4), LegOf(4)>>
    /\ bankroll = 5000

\* C7 (as amended): in the reference scenario round(10/64, 2) = 0.16 is below
\* the minimum unit, so the unit stays 0.20; the first leg loses its last
\* candidate (legs of 3, 4, 4 = 48 combinations) and the final cost is 9.60.
C7_ScenarioTrimmed ==
    (TrimScenario /\ hpc = "row") =>
        /\ cap = 1000
        /\ row.unit = 20
        /\ LegSizes(row.legs) = <<3, 4, 4>>
        /\ row.combos = 48
        /\ row.cost = 960

\* C7 as stated: the unit is rescaled to 0.16, the legs stay at 4 candidates
\* each and the final cost is 10.24
C7_AsStated ==
    (TrimScenario /\ hpc = "row") =>
        /\ row.unit = 16
        /\ LegSizes(row.legs) = <<4, 4, 4>>
        /\ row.cost = 1024

\* the reference scenario, emitted: raw cost 12.80 against a cap of 10.00
C7_Witness ==
    /\ TrimScenario /\ hpc = "row"
    /\ cap = 1000
    /\ combos_count(legs_in) * MinUnitOf(seq_name) = 1280

\* C8: the unit trim_ticket_to_cap works with and returns, and the unit of the
\* emitted row, is never below the bet type's minimum unit.
C8_UnitAtLeastMinimum ==
    /\ InTrim => unit >= MinUnitOf(seq_name)
    /\ hpc = "row" => row.unit >= MinUnitOf(seq_name)

\* a row emitted after the rescale was tried with round(cap / combos, 2) below
\* the minimum unit, for a Daily Double and for a Pick
C8_Witness ==
    /\ hpc = "row"
    /\ combos_count(legs_in) * MinUnitOf(seq_name) > cap
    /\ cap > 0
    /\ RoundDiv(cap, combos_count(legs_in)) < MinUnitOf(seq_name)
    /\ row.unit = MinUnitOf(seq_name)
    /\ seq_name = "Daily Double"

\* C9: when trim_ticket_to_cap returns, combinations x unit <= cap or every leg
\* is at or below its floor; a raw cost already <= cap returns legs and unit
\* unchanged; and no pass of the loop removes a candidate once combinations x
\* unit <= cap holds.
C9_StopsAtCapOrFloor ==
    /\ [](Returned =>
            /\ \/ combos_count(legs_lists) * unit <= cap
               \/ \A r \in 1..Len(legs_lists) : Len(legs_lists[r]) <= FloorOf(seq_name)
            /\ (combos_count(legs_in) * MinUnitOf(seq_name) <= cap)
                  => (legs_lists = legs_in /\ unit = MinUnitOf(seq_name)))
    /\ [][(InTrim /\ combos_count(legs_lists) * unit <= cap)
             => legs_lists' = legs_lists]_vars

\* a return under the cap after at least one removal, with a leg still above
\* the floor
C9_Witness ==
    /\ hpc = "ret"
    /\ legs_lists # legs_in
    /\ combos_count(legs_lists) * unit <= cap
    /\ \E r \in 1..Len(legs_lists) : Len(legs_lists[r]) > FloorOf(seq_name)

\* C10: a leg at least as long as the floor before trimming is at least as
\* long as the floor afterwards, a leg at or below the floor is never altered,
\* and no leg of an emitted row is empty (a span with an empty leg emits no row).
C10_LegsKeepFloor ==
    /\ InTrim =>
          \A r \in 1..Len(legs_in) :
              /\ Len(legs_in[r]) >= FloorOf(seq_name)
                    => Len(legs_lists[r]) >= FloorOf(seq_name)
              /\ Len(legs_in[r]) <= FloorOf(seq_name) => legs_lists[r] = legs_in[r]
    /\ row # NoRow =>
          /\ Len(row.legs) = Len(legs_in)
          /\ \A r \in 1..Len(row.legs) : Len(row.legs[r]) >= 1
    /\ (\E r \in 1..Len(legs_in) : legs_in[r] = <<>>) => (row = NoRow /\ ~InTrim)

\* a Daily Double emitted over its cap: one leg of a single candidate, left
\* alone, and one leg shrunk to the floor of 2
C10_Witness ==
    /\ hpc = "row" /\ seq_name = "Daily Double"
    /\ Len(legs_in[1]) = 1 /\ row.legs[1] = legs_in[1]
    /\ Len(legs_in[2]) > 2 /\ Len(row.legs[2]) = 2
    /\ row.cost > cap

----------------------------------------------------------------------------
(* Claims about chaos, singles and legs, checked under SpecCard, SpecDetect  *)

\* row i of race s is the single favorite as the design describes it: it is
\* rated at least 3.0 above every other starter (alone in the race counts)
\* and its probability is at least 0.34
IsSingleFavorite(s, i) ==
    /\ NGe(s[i].MC_WIN, 34)
    /\ \A j \in (1..Len(s)) \ {i} : NGe(NSub(s[i].CPR_STD, s[j].CPR_STD), 3)

\* position of race r in the span (s, e)
LegPos(sp, r) == r - sp[1] + 1

\* C11: whenever a single favorite is detected in a race, that race's leg is
\* exactly that one program number in the legs emit builds, at every point of
\* the trimming and in every emitted row, Daily Double included; and a race
\* whose top-rated starter is a single favorite has that starter detected.
C11_SingleLegKept ==
    /\ \A r \in DOMAIN single_map :
          (\E i \in 1..Len(card[r]) : IsSingleFavorite(card[r], i))
              => \E i \in 1..Len(card[r]) :
                    IsSingleFavorite(card[r], i) /\ single_map[r] = card[r][i].program
    /\ (cpc = "emit" /\ hpc # "idle") =>
          \A r \in span[1]..span[2] :
              single_map[r] # None =>
                  /\ legs_in[LegPos(span, r)] = <<single_map[r]>>
                  /\ legs_lists # <<>> => legs_lists[LegPos(span, r)] = <<single_map[r]>>
    /\ \A k \in 1..Len(seq_rows) :
          \A r \in seq_rows[k].start_race..seq_rows[k].end_race :
              single_map[r] # None =>
                  seq_rows[k].legs[r - seq_rows[k].start_race + 1] = <<single_map[r]>>

\* a Daily Double emitted with a single in one leg and the other leg trimmed
\* to the floor of 2
C11_Witness ==
    /\ cpc = "done"
    /\ \E k \in 1..Len(seq_rows) :
          /\ seq_rows[k].sequence = "Daily Double"
          /\ \E p, q \in 1..2 :
                /\ single_map[seq_rows[k].start_race + p - 1] # None
                /\ Len(seq_rows[k].legs[p]) = 1
                /\ Len(seq_rows[k].legs[q]) = 2
          /\ seq_rows[k].notes = <<"Chaos legs spread", "Anchor single", "Trimmed to cap">>

\* C12: no race is both a chaos leg and the holder of a single favorite.
C12_ChaosSingleExclusive ==
    \A r \in DOMAIN single_map : ~(chaos_map[r] /\ single_map[r] # None)

\* a single found in a race that is chaos in every respect but the top
\* probability: spread below 3.0 and two adversity columns flagged
C12_Witness ==
    /\ cpc = "emit"
    /\ single_map[1] # None /\ ~chaos_map[1]
    /\ count_adversity_flags(card[1]) >= 2
    /\ Len(card[1]) = 1

----------------------------------------------------------------------------
(* Claims about the emitted rows, checked under SpecTrim and SpecCard        *)

\* the four labels emit can put in the notes of a row
StructureNotes ==
    {"Chaos legs spread", "Anchor single", "Trimmed to cap", "Standard structure"}

\* C13: when trimming has reached the floors and combinations x unit still
\* exceeds the cap, the row is emitted all the same with its over-cap cost
\* (only an empty leg makes emit return nothing), and its notes hold a note
\* recording that the cap was exceeded.
C13_OverCapNoted ==
    /\ hpc = "none" => HasEmptyLeg(legs_in)
    /\ (hpc = "row" /\ row.cost > cap) =>
          /\ row.cost = combos_count(row.legs) * row.unit
          /\ \E k \in 1..Len(row.notes) : row.notes[k] \notin StructureNotes

\* the rows of seq_rows that carry bet type name
RowsOf(name) == {k \in 1..Len(seq_rows) : seq_rows[k].sequence = name}

\* the span of bet type name on the card: the races first .. first + L - 1,
\* when all of them are on the card
SpanOnCard(name) ==
    LET first == SetMin(DOMAIN card)
        want  == first..(first + SeqLength(name) - 1)
    IN  IF want \subseteq DOMAIN card THEN want ELSE {}

\* the leg of race r, computed from the race alone
LegOfRace(r) ==
    legs_from_tiers(card[r], assign_tiers(card[r]).Tier,
                    chaos_leg(card[r]), detect_single(card[r]))

\* the loop of trim_ticket_to_cap run to its end
RECURSIVE TrimToEnd(_, _, _, _)
TrimToEnd(ll, u, c, floor) ==
    LET step == ShrinkStep(ll, u, c, floor)
    IN  IF step.again THEN TrimToEnd(step.legs, u, c, floor) ELSE step.legs

\* the legs of the races of the card, each computed from its race alone, in
\* the order of the race numbers
CardLegs ==
    LET rs == SortedList(DOMAIN card)
    IN  List([k \in 1..Len(rs) |-> LegOfRace(rs[k])])

\* the row of bet type name when it is evaluated on its own on this card,
\* legs being CardLegs; a span on the card is made of the card's first races
RowAloneWith(legs, name) ==
    LET sp     == SpanOnCard(name)
        ll     == SubSeq(legs, 1, SeqLength(name))
        u0     == MIN_UNITS(name)
        c      == EmitCap(name, (base * card_mult(card)) \div 100)
        su     == scaled_unit(name, ll, u0, c)
        fits   == total_cost(ll, u0) <= c
        final  == IF fits \/ combos_count(ll) * su <= c THEN ll
                  ELSE TrimToEnd(ll, su, c, mins(name))
        u      == IF fits THEN u0 ELSE su
        cost2  == combos_count(final) * u
    IN  [sequence   |-> name,
         start_race |-> SetMin(sp),
         end_race   |-> SetMax(sp),
         unit       |-> u,
         combos     |-> combos_count(final),
         cost       |-> cost2,
         legs       |-> final,
         notes      |-> EmitNotes(<<SetMin(sp), SetMax(sp)>>,
                                  [r \in sp |-> chaos_leg(card[r])],
                                  [r \in sp |-> detect_single(card[r])],
                                  cost2 < combos_count(ll) * u0)]

RowAlone(name) == RowAloneWith(CardLegs, name)

\* a race of the span of bet type name has an empty leg
HasGapIn(legs, name) ==
    SpanOnCard(name) # {} /\ \E k \in 1..SeqLength(name) : legs[k] = <<>>

HasGap(name) == \E r \in SpanOnCard(name) : LegOfRace(r) = <<>>

(* C14: emit returns None exactly when a leg of the span is empty; the
   builder ends with an exception only when a race's detection raises; and
   when it returns, the bet types whose span is on the card and has no empty
   leg each have one row, the row the bet type gets when evaluated alone,
   and no other bet type has a row.                                         *)
C14_EmptyLegAbandonsOnlyThatType ==
    /\ hpc = "none" => (row = NoRow /\ HasEmptyLeg(legs_in))
    /\ cpc = "error" =>
          \E r \in DOMAIN card : chaos_leg_raises(card[r]) \/ detect_single_raises(card[r])
    /\ cpc = "done" /\ card # <<>> =>
          \A legs \in {CardLegs} : \A name \in SeqNames :
              IF SpanOnCard(name) = {} \/ HasGapIn(legs, name)
              THEN RowsOf(name) = {}
              ELSE /\ Cardinality(RowsOf(name)) = 1
                   /\ \A k \in RowsOf(name) : seq_rows[k] = RowAloneWith(legs, name)

\* a card of four races whose third race has an empty leg: the Daily Double
\* is emitted, Pick 3 and Pick 4 are abandoned
C14_Witness ==
    /\ cpc = "done" /\ Len(races) = 4
    /\ ~HasGap("Daily Double") /\ HasGap("Pick 3") /\ HasGap("Pick 4")
    /\ Len(seq_rows) = 1 /\ seq_rows[1].sequence = "Daily Double"

----------------------------------------------------------------------------
(* C15: a row covers the races first .. first + L - 1 of the card, all of
   them on the card; when the builder has ended, no bet type longer than the
   card has a row, and every bet type whose whole span is on the card (and
   whose races all have a candidate) has its row.  sequence_rows of v1_3
   tests only the last race of a span (line 146): on a card with a missing
   race number it ends with KeyError and the rows of the shorter bet types
   are lost with it.                                                        *)
C15_SpansFromFirstRace ==
    /\ \A k \in 1..Len(seq_rows) :
          /\ seq_rows[k].start_race = SetMin(DOMAIN card)
          /\ seq_rows[k].end_race =
                seq_rows[k].start_race + SeqLength(seq_rows[k].sequence) - 1
          /\ seq_rows[k].start_race .. seq_rows[k].end_race \subseteq DOMAIN card
    /\ cpc \in {"done", "error"} /\ card # <<>> =>
          \A name \in SeqNames :
              /\ SeqLength(name) > Cardinality(DOMAIN card) => RowsOf(name) = {}
              /\ SpanOnCard(name) # {} => Cardinality(RowsOf(name)) = 1

----------------------------------------------------------------------------
\* the races of the card in which some starter's win probability is at least
\* (strict = FALSE) or above (strict = TRUE) 0.34
StrongRaces(strict) ==
    {r \in DOMAIN card : \E i \in 1..Len(card[r]) :
        /\ ~IsNaN(card[r][i].MC_WIN)
        /\ IF strict THEN card[r][i].MC_WIN > 34 ELSE card[r][i].MC_WIN >= 34}

\* 1.5, 1.0 or 0.6 times the base stake, in cents, for n strong races
StakeFor(n) ==
    IF n >= 3 THEN (base * 3) \div 2 ELSE IF n >= 1 THEN base ELSE (base * 3) \div 5

\* build_sequences has computed the bankroll of a card with races
BankrollSet == cpc \in {"maps", "emit", "done", "error"} /\ card # <<>>

(* C16 (amended): the effective bankroll is the base stake times 1.5 when at
   least three races of the card have a top win probability of at least 0.34,
   times 1.0 when one or two races do, and times 0.6 when none does.        *)
C16_MultiplierAtLeastThreshold ==
    BankrollSet => bankroll = StakeFor(Cardinality(StrongRaces(FALSE)))

\* C16 as stated: only a top probability exceeding 0.34 makes a race strong
C16_AsStated ==
    BankrollSet => bankroll = StakeFor(Cardinality(StrongRaces(TRUE)))

\* three strong races, one of them with a top probability of 0.34 exactly:
\* the bankroll is 1.5 times the base stake
C16_Witness ==
    /\ BankrollSet
    /\ Cardinality(StrongRaces(FALSE)) = 3 /\ Cardinality(StrongRaces(TRUE)) = 2
    /\ bankroll = (base * 3) \div 2

----------------------------------------------------------------------------
(* C17: the cost of every emitted row is at most the hard cap of its bet
   type, whatever the bankroll and the legs, also when the floors stop the
   trimming above the cap.                                                  *)
C17_CostWithinHardCap ==
    /\ hpc = "row" => row.cost <= HARD_CAP(row.sequence)
    /\ \A k \in 1..Len(seq_rows) : seq_rows[k].cost <= HARD_CAP(seq_rows[k].sequence)

\* a row whose legs stand at the floor with its cost above the cap, the cap
\* being the share of the bankroll, below the hard cap
C17_Witness ==
    /\ hpc = "row" /\ row.cost > cap /\ cap < HARD_CAP(seq_name)
    /\ \A r \in 1..Len(row.legs) : Len(row.legs[r]) <= mins(seq_name)
    /\ \E r \in 1..Len(legs_in) : Len(legs_in[r]) > Len(row.legs[r])
    /\ row.cost <= HARD_CAP(seq_name)

----------------------------------------------------------------------------
\* the table has none of the rating-column names the entry point accepts
NoRatingAlias ==
    CASE entry = "simulator" ->
            \A col \in columns :
                Normalize(col) # <<"c", "p", "r", "c", "o", "m", "p", "o", "s", "i", "t", "e">>
      [] entry = "horizontals" ->
            \A k \in 1..Len(CPR_CANDIDATES) : CPR_CANDIDATES[k] \notin columns
      [] entry = "verticals" -> columns \cap VertRatingNames = {}
      [] OTHER -> FALSE

(* C18: on a table with no accepted rating column no trial is ever tallied
   and no row or ticket is ever produced, and the run can only end with the
   exception raised for a missing column.  mc_simulator resolves the column
   inside each trial: a table without races is answered with an empty frame,
   and with runs = 0 the run ends in ZeroDivisionError.                     *)
C18_SchemaErrorFirst ==
    NoRatingAlias =>
        /\ tallied = 0 /\ produced = 0
        /\ spc \in {"load", "sim"} \cup SchemaErrors

----------------------------------------------------------------------------
\* the computations build_sequences runs on race r alone end with an exception
RaceFails(r) == chaos_leg_raises(card[r]) \/ detect_single_raises(card[r])

(* C19: a failure in one race does not take the other races' output with it:
   when build_sequences has ended, every bet type whose span is on the card,
   made of races that compute without failure and have a candidate each, has
   its row.  The loop that fills chaos_map and single_map (lines 238-241)
   catches nothing: one failing race ends build_sequences with no row.      *)
C19_FailureIsolated ==
    cpc \in {"done", "error"} /\ card # <<>> =>
        \A name \in SeqNames :
            (/\ SpanOnCard(name) # {}
             /\ \A r \in SpanOnCard(name) : ~RaceFails(r)
             /\ ~HasGap(name))
            => Cardinality(RowsOf(name)) = 1

----------------------------------------------------------------------------
(* C20: on a race of one or two starters the win/place/show simulator never
   ends with an exception; it tallies a win in every trial, a place only when
   there are two starters and no show, and the win tallies it reports sum to
   the trial count.  simulate_race_once reads order[1] and order[2] whatever
   the field size: the first trial raises IndexError.                       *)
C20_FewStartersGraceful ==
    (mcVariant = "noise" /\ Len(group) < 3 /\ runs > 0) =>
        /\ mcPc # "error"
        /\ SeqSum(wins) = trial
        /\ SeqSum(places) = (IF Len(group) = 2 THEN trial ELSE 0)
        /\ SeqSum(shows) = 0
        /\ mcPc = "done" =>
              SeqSum([i \in 1..Len(out_rows) |-> out_rows[i].win]) = runs

----------------------------------------------------------------------------
\* the win counts of race df simulated on its own for n trials from state x
RECURSIVE TallyAlone(_, _, _, _)
TallyAlone(df, x, n, acc) ==
    IF n = 0 THEN acc
    ELSE LET winner == simulate_race_once_direct(df, RngDraw(x), RGrid)
         IN  TallyAlone(df, RngStep(x), n - 1, [acc EXCEPT ![winner] = @ + 1])

(* C21: with a fixed seed the win counts reported for a race are those of
   the race simulated alone from that seed, whatever other races the card
   holds and wherever the race stands in it.  The simulators draw from the
   one generator of the process: a race's draws start where the races before
   it left the generator.                                                   *)
C21_RaceResultIndependentOfCard ==
    \A i \in 1..Len(mresults) :
        mresults[i] =
            TallyAlone(mcard[i], SeedState(seed), mruns, [k \in 1..Len(mcard[i]) |-> 0])

----------------------------------------------------------------------------
(* C22: in the order of a noise trial no starter stands ahead of one with a
   higher score, and of two neighbours with equal scores the one earlier in
   input order stands ahead.  np.argsort(scores)[::-1] sorts ascending and
   reverses: even a stable ascending sort puts the later of two equal scores
   ahead, and the default sort kind is not a stable one.                    *)
C22_StableTieOrder ==
    (mcVariant = "noise" /\ last_order # <<>>) =>
        \A i \in 1..(Len(last_order) - 1) :
            /\ ~ScoreLess(last_scores[last_order[i]], last_scores[last_order[i + 1]])
            /\ last_scores[last_order[i]] = last_scores[last_order[i + 1]] => last_order[i] < last_order[i + 1]

----------------------------------------------------------------------------
\* leg a is leg b without some of its last candidates
IsPrefix(a, b) == Len(a) <= Len(b) /\ a = SubSeq(b, 1, Len(a))

\* between ll and ll2 leg i lost its last candidate and nothing else changed
PoppedAt(ll, ll2, i) ==
    /\ Len(ll2) = Len(ll)
    /\ Len(ll[i]) >= 1
    /\ ll2[i] = SubSeq(ll[i], 1, Len(ll[i]) - 1)
    /\ \A r \in 1..Len(ll) : r # i => ll2[r] = ll[r]

(* C23: a pass of the trimming loop either leaves the legs alone or removes
   the last candidate of one leg, a leg above the floor that no other leg
   above the floor exceeds in length; the legs emit passed in are never
   changed, and every working leg is a prefix of the leg it was copied from. *)
C23_ShrinkStepFrame ==
    [][hpc = "loop" =>
          /\ legs_in' = legs_in
          /\ \/ legs_lists' = legs_lists
             \/ \E i \in 1..Len(legs_lists) :
                   /\ PoppedAt(legs_lists, legs_lists', i)
                   /\ Len(legs_lists[i]) > mins(seq_name)
                   /\ \A j \in 1..Len(legs_lists) :
                         Len(legs_lists[j]) > mins(seq_name)
                            => Len(legs_lists[j]) <= Len(legs_lists[i])
          /\ \A r \in 1..Len(legs_in) : IsPrefix(legs_lists'[r], legs_in[r])]_vars

\* the loop has popped candidates: one leg lost two, another leg none
C23_Witness ==
    /\ hpc \in {"loop", "ret"}
    /\ \E r \in 1..Len(legs_in) : Len(legs_lists[r]) + 2 <= Len(legs_in[r])
    /\ \E r \in 1..Len(legs_in) : Len(legs_in[r]) >= 2 /\ legs_lists[r] = legs_in[r]

----------------------------------------------------------------------------
\* no adversity column shows anything for the race, as is the case for every
\* race of a table that has none of the adversity columns
NoAdversitySignal(s) == \A i \in 1..Len(s) : s[i].adv = {}

\* the degraded rule: (spread <= 3.0 and top probability < 0.27) or top
\* probability < 0.20, the spread being that of the three highest ratings
DegradedChaos(s) ==
    LET mc_top == NaMax(Column(s, "MC_WIN"))
        top3   == Top3(s)
        spread == IF Len(top3) = 3 THEN top3[1] - top3[3]
                  ELSE top3[1] - NaMin(Column(s, "CPR_STD"))
    IN  (spread <= 3 /\ NLt(mc_top, 27)) \/ NLt(mc_top, 20)

(* C24: for a race of a table without adversity columns the chaos flag
   build_sequences records is the verdict of the degraded rule.
   count_adversity_flags returns 0 for such a table and chaos_leg keeps
   asking for two flags: no race of the table is ever chaos.                *)
C24_DegradedRuleWithoutAdversity ==
    \A r \in DOMAIN chaos_map :
        (cpc \in {"maps", "emit", "done"} /\ r \in DOMAIN card /\ NoAdversitySignal(card[r]))
            => chaos_map[r] = DegradedChaos(card[r])

----------------------------------------------------------------------------
\* the row of race r that carries program number p
RowOfProgram(r, p) == CHOOSE i \in 1..Len(card[r]) : card[r][i].program = p

\* the rows of race r legs_from_tiers keeps, and the lowest and highest
\* rating among them: the scale of the normalized rating
KeptRows(r) ==
    {i \in 1..Len(card[r]) :
        tiered[r][i] \in (IF chaos_map[r] THEN {"A", "B", "C"} ELSE {"A", "B"})}

KeptLo(r) == SetMin({card[r][i].CPR_STD : i \in KeptRows(r)})

KeptHi(r) == SetMax({card[r][i].CPR_STD : i \in KeptRows(r)})

\* in the leg of race r the starter at position b has a higher hybrid score
\* than the starter at position a
OutScores(leg, r, b, a) ==
    ScoreAbove(card[r], KeptLo(r), KeptHi(r),
               RowOfProgram(r, leg[b]), RowOfProgram(r, leg[a]))

\* emit holds the legs of a span whose races have no single favorite at k
NoSingleLeg(k) ==
    /\ cpc = "emit" /\ hpc # "idle"
    /\ k \in 1..Len(legs_in)
    /\ single_map[span[1] + k - 1] = None

\* leg is in tier order, and within a tier in descending score order
TierThenScore(leg, r) ==
    \A a, b \in 1..Len(leg) :
        a < b =>
            LET ta == tiered[r][RowOfProgram(r, leg[a])]
                tb == tiered[r][RowOfProgram(r, leg[b])]
            IN  /\ TierOrd(ta) <= TierOrd(tb)
                /\ ta = tb => ~OutScores(leg, r, b, a)

(* C25 (amended): the leg of a race without a single favorite lists the
   Tier A starters first, then Tier B, then (chaos only) Tier C, and within
   a tier in descending order of the hybrid score; the capped leg and every
   leg left by the trimming loop keep this order, so a pop discards the last
   starter of this order.                                                   *)
C25_LegOrderedByTierThenScore ==
    \A k \in 1..Len(legs_in) :
        NoSingleLeg(k) =>
            /\ TierThenScore(legs_in[k], span[1] + k - 1)
            /\ hpc \in {"loop", "ret", "row"} => IsPrefix(legs_lists[k], legs_in[k])

\* C25 as stated: no starter of the leg has a higher hybrid score than one
\* standing before it
C25_AsStated ==
    \A k \in 1..Len(legs_in) :
        NoSingleLeg(k) =>
            \A a, b \in 1..Len(legs_in[k]) :
                a < b => ~OutScores(legs_in[k], span[1] + k - 1, b, a)

\* a leg in which a Tier B starter out-scores a Tier A starter before it,
\* and from which the trimming loop has popped the last starter
C25_Witness ==
    \E k \in 1..Len(legs_in) :
        /\ NoSingleLeg(k) /\ hpc \in {"ret", "row"}
        /\ \E a, b \in 1..Len(legs_in[k]) :
              a < b /\ OutScores(legs_in[k], span[1] + k - 1, b, a)
        /\ Len(legs_lists[k]) < Len(legs_in[k])

----------------------------------------------------------------------------
(* C26: the leg of a race without a single favorite holds only starters of
   Tier A and Tier B when the race is not chaos, starters of any tier when
   it is, and at most 4 program numbers when the race is not chaos, at most
   6 when it is.                                                            *)
C26_LegTiersAndLength ==
    \A k \in 1..Len(legs_in) :
        NoSingleLeg(k) =>
            LET r   == span[1] + k - 1
                leg == legs_in[k]
            IN  /\ \A a \in 1..Len(leg) :
                      /\ \E i \in 1..Len(card[r]) : card[r][i].program = leg[a]
                      /\ tiered[r][RowOfProgram(r, leg[a])] = "C" => chaos_map[r]
                /\ Len(leg) <= (IF chaos_map[r] THEN 6 ELSE 4)
                /\ hpc \in {"loop", "ret", "row"} =>
                      \A a \in 1..Len(legs_lists[k]) :
                          \E b \in 1..Len(leg) : legs_lists[k][a] = leg[b]

\* a span with a chaos race whose leg of 6 holds a Tier C starter, a seventh
\* starter being cut off, and a race that is not chaos whose five Tier A and
\* B starters are cut to 4
C26_Witness ==
    /\ cpc = "emit" /\ hpc = "emit"
    /\ \E k \in 1..Len(legs_in) :
          /\ NoSingleLeg(k) /\ chaos_map[span[1] + k - 1]
          /\ Len(legs_in[k]) = 6 /\ Cardinality(KeptRows(span[1] + k - 1)) > 6
          /\ \E a \in 1..6 :
                tiered[span[1] + k - 1][RowOfProgram(span[1] + k - 1, legs_in[k][a])] = "C"
    /\ \E k \in 1..Len(legs_in) :
          /\ NoSingleLeg(k) /\ ~chaos_map[span[1] + k - 1]
          /\ Len(legs_in[k]) = 4 /\ Cardinality(KeptRows(span[1] + k - 1)) > 4

----------------------------------------------------------------------------
(* C27: the unit of every row is the minimum unit of its bet type, also
   after the rescale step of trim_ticket_to_cap, and a row that costs less
   than the untrimmed ticket has lost candidates.                           *)
C27_UnitIsMinimumUnit ==
    /\ hpc \in {"loop", "ret"} => unit = MIN_UNITS(seq_name)
    /\ hpc = "row" =>
          /\ row.unit = MIN_UNITS(seq_name)
          /\ row.cost < combos_count(legs_in) * MIN_UNITS(seq_name)
                => \E r \in 1..Len(legs_in) : Len(row.legs[r]) < Len(legs_in[r])
    /\ \A k \in 1..Len(seq_rows) : seq_rows[k].unit = MIN_UNITS(seq_rows[k].sequence)

\* a row whose ticket went through the rescale step and the loop and now
\* fits the cap at the minimum unit
C27_Witness ==
    /\ hpc = "row" /\ cap > 0
    /\ combos_count(legs_in) * MIN_UNITS(seq_name) > cap
    /\ row.cost <= cap
    /\ row.unit = MIN_UNITS(seq_name)
    /\ row.combos < combos_count(legs_in)

----------------------------------------------------------------------------
(* C28: the loop of trim_ticket_to_cap ends for every ticket and every cap,
   a cap of 0 or below included, and it ends with the cost within the cap or
   with no leg above the floor.                                             *)
C28_TrimTerminates ==
    (hpc = "loop") ~>
        (/\ hpc = "ret"
         /\ \/ total_cost(legs_lists, unit) <= cap
            \/ ShrinkIdxs(legs_lists, mins(seq_name)) = {})

\* the number of candidates of a ticket
TicketSize(ll) == SumSeq([i \in 1..Len(ll) |-> Len(ll[i])])

\* the loop has returned under a cap of 0 or below after several passes,
\* every leg standing at its floor
C28_Witness ==
    /\ hpc = "ret" /\ cap <= 0
    /\ TicketSize(legs_lists) + 2 <= TicketSize(legs_in)
    /\ ShrinkIdxs(legs_lists, mins(seq_name)) = {}
    /\ total_cost(legs_lists, unit) > cap

----------------------------------------------------------------------------
\* each of the two anchors stands first in at least one of rows
AnchorsKept(rows, anchors) ==
    \A a \in 1..Len(anchors) : \E k \in 1..Len(rows) : rows[k].ticket[1] = anchors[a]

(* C29: for each vertical bet type and every race with enough starters to
   form a ticket from each anchor (2, 3, 4 starters), each of the two anchors
   stands in first position of at least one emitted ticket.                 *)
C29_AnchorsSurviveTruncation ==
    /\ (vpc \in {"trifecta", "super", "done"} /\ Len(vsub) >= 2)
          => AnchorsKept(ex_rows, Pool(vsub, 70, 30, ANCHOR_POOL))
    /\ (vpc \in {"super", "done"} /\ Len(vsub) >= 3)
          => AnchorsKept(tri_rows, Pool(vsub, 65, 35, ANCHOR_POOL))
    /\ (vpc = "done" /\ Len(vsub) >= 4)
          => AnchorsKept(sup_rows, Pool(vsub, 60, 40, ANCHOR_POOL))

----------------------------------------------------------------------------
\* the names any of the entry points accepts for the rating column
RatingAliases ==
    SeqRange(CPR_CANDIDATES) \cup SeqRange(SIM_CPR_CANDIDATES) \cup VertRatingNames

(* C30: on a table that carries more than one accepted rating alias, the
   column an entry point has resolved is the column each of the Monte Carlo
   simulator, the horizontal builder and the vertical builder resolves on
   that table.                                                              *)
C30_SameRatingColumn ==
    (rating_col # NoColumn /\ Cardinality(columns \cap RatingAliases) > 1) =>
        \A other \in {find_cpr_column_v1(columns), FirstCol(columns, CPR_CANDIDATES),
                       VertRating(columns)} :
            other # NoColumn => other = rating_col

====
